---- MODULE Spec2Model ----
(***************************************************************************)
(* A model of the Account Authenticity Audit Engine of                     *)
(* src/backend/ig_tools.py: the Metrics Engine (compute_profile_metrics),  *)
(* the Bot Classifier (classify_likely_fake, looks_botty_username) and the *)
(* three audit runs (profile_basic, profile_audit, follower_audit) with    *)
(* their Session Context; and of src/backend/app.py: the audit endpoints   *)
(* of the HTTP layer and the Bayesian estimator (authenticity_estimate).   *)
(*                                                                         *)
(* Text is modelled as sequences of one-character strings, so that         *)
(* strip(), lower(), isalpha(), isdigit() and the regular expressions are  *)
(* computed character by character as the code computes them.             *)
(* Numbers the code holds as floats are carried as exact rationals        *)
(* (numerator, denominator); where an IEEE-754 double comparison differs   *)
(* from the exact one inside the model's bounds, the difference is stated  *)
(* at the operator that makes the comparison.                              *)
(***************************************************************************)
EXTENDS Integers, Sequences, FiniteSets, TLC

VARIABLES
    profile,    \* Metrics Engine: the profile handed to compute_profile_metrics
    metrics,    \* Metrics Engine: <<MetricsReport>> once returned, <<>> before
    frec,       \* Bot Classifier: the FollowerRecord-shaped input
    verdict,    \* Bot Classifier: <<likely_fake, reasons>> once returned, <<>> before
    run,        \* an audit run: arguments, locals, program position, outcome
    hist,       \* history of the run: what the environment did to it
    server,     \* HTTP layer: the audit requests in flight, <<>> when not serving
    call,       \* a function of app.py or ig_tools.py applied to an argument
    db          \* the SQLite database: the users table and its write lock

\* a value not yet there: an input not given, a result not yet returned
NoValue == <<>>

-----------------------------------------------------------------------------
(* Characters and strings                                                   *)

LowerSeq == <<"a","b","c","d","e","f","g","h","i","j","k","l","m",
              "n","o","p","q","r","s","t","u","v","w","x","y","z">>
UpperSeq == <<"A","B","C","D","E","F","G","H","I","J","K","L","M",
              "N","O","P","Q","R","S","T","U","V","W","X","Y","Z">>
DigitSeq == <<"0","1","2","3","4","5","6","7","8","9">>

Range(s) == {s[i] : i \in DOMAIN s}

LowerCase == Range(LowerSeq)
UpperCase == Range(UpperSeq)
DigitChars == Range(DigitSeq)
WhiteSpace == {" "}

\* str.isalpha() / str.isdigit() on one character
IsAlpha(ch) == ch \in LowerCase \cup UpperCase
IsDigit(ch) == ch \in DigitChars
\* a regular-expression word character: \w, i.e. [A-Za-z0-9_]
IsWordChar(ch) == IsAlpha(ch) \/ IsDigit(ch) \/ ch = "_"

\* str.lower() on one character and on a string
LowerChar(ch) ==
    IF ch \in UpperCase
    THEN LowerSeq[CHOOSE i \in DOMAIN UpperSeq : UpperSeq[i] = ch]
    ELSE ch
Lower(s) == [i \in DOMAIN s |-> LowerChar(s[i])]

\* str.strip(): leading and trailing whitespace removed
Strip(s) ==
    LET keep == {i \in DOMAIN s : s[i] \notin WhiteSpace}
    IN  IF keep = {} THEN <<>>
        ELSE LET lo == CHOOSE i \in keep : \A j \in keep : i <= j
                 hi == CHOOSE i \in keep : \A j \in keep : j <= i
             IN  SubSeq(s, lo, hi)

\* sum(ch.isalpha() for ch in s), sum(ch.isdigit() for ch in s)
CountAlpha(s) == Cardinality({i \in DOMAIN s : IsAlpha(s[i])})
CountDigit(s) == Cardinality({i \in DOMAIN s : IsDigit(s[i])})

-----------------------------------------------------------------------------
(* is_generic_comment                                                       *)

generic_phrases == {
    <<"n","i","c","e">>,
    <<"n","i","c","e"," ","p","i","c">>,
    <<"n","i","c","e"," ","p","o","s","t">>,
    <<"c","o","o","l">>,
    <<"w","o","w">>,
    <<"a","m","a","z","i","n","g">>,
    <<"g","r","e","a","t">>,
    <<"l","o","v","e"," ","t","h","i","s">>,
    <<"s","o"," ","n","i","c","e">>,
    <<"b","e","a","u","t","i","f","u","l">>,
    <<"a","w","e","s","o","m","e">>,
    <<"g","r","e","a","t"," ","p","i","c">>,
    <<"l","o","v","e","l","y">>,
    <<"p","e","r","f","e","c","t">> }

\* is_generic_comment whose last test is a match of [\W]+
is_generic_comment_nonword(text) ==
    LET t == Lower(Strip(text))
        letters == CountAlpha(t)
    IN  \/ Len(t) <= 2
        \/ t \in generic_phrases
        \/ (letters <= 3 /\ Len(t) <= 12)
        \/ \A i \in DOMAIN t : ~IsWordChar(t[i])

is_generic_comment(text) ==
    LET t == Lower(Strip(text))
        letters == CountAlpha(t)
    IN  \/ Len(t) <= 2
        \/ t \in generic_phrases
        \/ (letters <= 3 /\ Len(t) <= 12)
        \/ \A i \in DOMAIN t : ~IsWordChar(t[i]) \/ t[i] = "_"

-----------------------------------------------------------------------------
(* Exact arithmetic for the values the code holds as floats                 *)

\* The like values of the modelled inputs are multiples of 1/LikesDen (the
\* code converts them to float, so halves are inputs it accepts); a post's
\* "likes" field holds the numerator.
LikesDen == 2

RECURSIVE SumSeq(_)
SumSeq(s) == IF s = <<>> THEN 0 ELSE Head(s) + SumSeq(Tail(s))

SumSq(s) == SumSeq([i \in DOMAIN s |-> s[i] * s[i]])

\* the k-th smallest element of s (np.median sorts)
KthSmallest(s, k) ==
    CHOOSE v \in Range(s) :
        /\ Cardinality({i \in DOMAIN s : s[i] < v}) < k
        /\ Cardinality({i \in DOMAIN s : s[i] <= v}) >= k

\* twice np.median(s): the middle element, or the mean of the two middle ones
Median2(s) ==
    LET n == Len(s)
    IN  IF n = 0 THEN 0
        ELSE IF n % 2 = 1 THEN 2 * KthSmallest(s, (n + 1) \div 2)
        ELSE KthSmallest(s, n \div 2) + KthSmallest(s, n \div 2 + 1)

\* round(num/den) to the nearest integer, ties to even, as Python's round()
RoundDiv(num, den) ==
    LET q == num \div den
        r == num % den
    IN  IF 2 * r < den THEN q
        ELSE IF 2 * r > den THEN q + 1
        ELSE IF q % 2 = 0 THEN q ELSE q + 1

\* a < b for rationals <<numerator, denominator>> with positive denominators
RatLess(a, b) == a[1] * b[2] < b[1] * a[2]

\* (count / total) * 100.0 > thr, as lines 167-170 compare generic_pct.
\* Exact and double arithmetic agree for every total up to 40.
PctOver(count, total, thr) ==
    total > 0 /\ 100 * count > thr * total

\* (1 - unique / total) * 100.0 > thr, as lines 172-180 compare dup_pct and
\* repeat_commenters_pct.  In double arithmetic 1 - 0.7 is 0.30000000000000004
\* and 1 - 0.85 is 0.15000000000000002, so a share of exactly 30 (or 15)
\* percent compares as above 30 (or 15); for every other share with total up
\* to 40 the double and the exact comparison agree.
OneMinusPctOver(unique, total, thr) ==
    /\ total > 0
    /\ \/ 100 * (total - unique) > thr * total
       \/ (thr = 30 /\ 10 * unique = 7 * total)
       \/ (thr = 15 /\ 20 * unique = 17 * total)

-----------------------------------------------------------------------------
(* compute_profile_metrics                                                  *)

RECURSIVE FlattenComments(_)
FlattenComments(posts) ==
    IF posts = <<>> THEN <<>>
    ELSE Head(posts).comments \o FlattenComments(Tail(posts))

LikesOf(posts) == [i \in DOMAIN posts |-> posts[i].likes]
CommentCountsOf(posts) == [i \in DOMAIN posts |-> posts[i].comments_count]

\* er_avg as a rational: (avg_likes + avg_comments) / followers, 0 if followers = 0
ErAvg(followers, posts) ==
    LET n == Len(posts)
    IN  IF followers > 0 /\ n > 0
        THEN <<SumSeq(LikesOf(posts)) + LikesDen * SumSeq(CommentCountsOf(posts)),
               n * LikesDen * followers>>
        ELSE <<0, 1>>

\* er_med as a rational: (med_likes + med_comments) / followers
ErMed(followers, posts) ==
    IF followers > 0 /\ Len(posts) > 0
    THEN <<Median2(LikesOf(posts)) + LikesDen * Median2(CommentCountsOf(posts)),
           2 * LikesDen * followers>>
    ELSE <<0, 1>>

\* The square of the coefficient of variation std/mean of s (population
\* standard deviation, as np.std), as a rational; 0 when s is empty or its
\* mean is 0.
CvSquared(s) ==
    LET n == Len(s)
        S == SumSeq(s)
    IN  IF n > 0 /\ S > 0 THEN <<n * SumSq(s) - S * S, S * S>> ELSE <<0, 1>>

\* the normalised texts / commenters the duplicate shares are taken over
TextsOf(all) ==
    LET kept == SelectSeq(all, LAMBDA c : c.text # <<>>)
    IN  [i \in DOMAIN kept |-> Lower(Strip(kept[i].text))]
CommentersOf(all) ==
    LET kept == SelectSeq(all, LAMBDA c : c.username # <<>>)
    IN  [i \in DOMAIN kept |-> Lower(Strip(kept[i].username))]

\* the components of the additive risk score
RiskEngagement(followers, er) ==
    IF followers < 10000
    THEN (IF RatLess(er, <<1, 100>>) THEN 25 ELSE 0)
    ELSE IF followers < 100000
    THEN (IF RatLess(er, <<7, 1000>>) THEN 25 ELSE 0)
    ELSE (IF RatLess(er, <<3, 1000>>) THEN 25 ELSE 0)

\* RiskGeneric with the second test not an elif of the first
RiskGenericBothSteps(generic, total) ==
    (IF PctOver(generic, total, 40) THEN 20 ELSE 0)
    + (IF PctOver(generic, total, 25) THEN 12 ELSE 0)

RiskGeneric(generic, total) ==
    IF PctOver(generic, total, 40) THEN 20
    ELSE IF PctOver(generic, total, 25) THEN 12 ELSE 0

RiskDuplicate(texts) ==
    LET unique == Cardinality(Range(texts))
    IN  IF OneMinusPctOver(unique, Len(texts), 20) THEN 15
        ELSE IF OneMinusPctOver(unique, Len(texts), 10) THEN 8 ELSE 0

RiskRepeat(commenters) ==
    LET unique == Cardinality(Range(commenters))
    IN  IF OneMinusPctOver(unique, Len(commenters), 30) THEN 10
        ELSE IF OneMinusPctOver(unique, Len(commenters), 15) THEN 5 ELSE 0

RiskLikeConsistency(likes) ==
    IF Len(likes) >= 10 /\ RatLess(CvSquared(likes), <<9, 400>>) THEN 10 ELSE 0

\* RiskCommentConsistency with the uniformity test skipped when no post has a comment
RiskCommentConsistencyNonzeroMean(comcnt) ==
    IF Len(comcnt) >= 10 /\ SumSeq(comcnt) > 0
       /\ RatLess(CvSquared(comcnt), <<1, 25>>) THEN 5 ELSE 0

RiskCommentConsistency(comcnt) ==
    IF Len(comcnt) >= 10 /\ RatLess(CvSquared(comcnt), <<1, 25>>) THEN 5 ELSE 0

Clamp(lo, x, hi) == IF x < lo THEN lo ELSE IF x > hi THEN hi ELSE x

\* The MetricsReport.  Rounded fields are carried as integers in units of the
\* last decimal the code rounds to (_e2: hundredths, _e3: thousandths,
\* _e1: tenths); like_cv and comment_cv are carried as the exact square.
compute_profile_metrics(p) ==
    LET followers == p.followers
        posts == p.posts
        n == Len(posts)
        likes == LikesOf(posts)
        comcnt == CommentCountsOf(posts)
        er_avg == ErAvg(followers, posts)
        er_med == ErMed(followers, posts)
        all_comments == FlattenComments(posts)
        total_comments == Len(all_comments)
        generic == Cardinality({i \in DOMAIN all_comments :
                                    is_generic_comment(all_comments[i].text)})
        texts == TextsOf(all_comments)
        commenters == CommentersOf(all_comments)
        risk == RiskEngagement(followers, er_avg)
                + RiskGeneric(generic, total_comments)
                + RiskDuplicate(texts)
                + RiskRepeat(commenters)
                + RiskLikeConsistency(likes)
                + RiskCommentConsistency(comcnt)
    IN  [ avg_likes |-> IF n > 0 THEN RoundDiv(100 * SumSeq(likes), n * LikesDen) ELSE 0,
          median_likes |-> RoundDiv(100 * Median2(likes), 2 * LikesDen),
          avg_comments |-> IF n > 0 THEN RoundDiv(100 * SumSeq(comcnt), n) ELSE 0,
          median_comments |-> RoundDiv(100 * Median2(comcnt), 2),
          er_avg |-> RoundDiv(100000 * er_avg[1], er_avg[2]),
          er_median |-> RoundDiv(100000 * er_med[1], er_med[2]),
          like_cv |-> CvSquared(likes),
          comment_cv |-> CvSquared(comcnt),
          generic_comments_pct |->
              IF total_comments > 0 THEN RoundDiv(10000 * generic, total_comments) ELSE 0,
          duplicate_comments_pct |->
              IF Len(texts) > 0
              THEN RoundDiv(10000 * (Len(texts) - Cardinality(Range(texts))), Len(texts))
              ELSE 0,
          repeat_commenters_pct |->
              IF Len(commenters) > 0
              THEN RoundDiv(10000 * (Len(commenters) - Cardinality(Range(commenters))),
                            Len(commenters))
              ELSE 0,
          risk_score |-> 10 * Clamp(0, risk, 100) ]


-----------------------------------------------------------------------------
(* looks_botty_username, classify_likely_fake                               *)

\* re.search(r"^[a-z]{2,6}\d{4,}$", u, re.IGNORECASE): 2 to 6 letters, then
\* 4 or more digits, and nothing else
MatchesLettersThenDigits(u) ==
    \E k \in 2..6 :
        /\ Len(u) >= k + 4
        /\ \A i \in 1..k : IsAlpha(u[i])
        /\ \A i \in (k + 1)..Len(u) : IsDigit(u[i])

Max(a, b) == IF a >= b THEN a ELSE b
Min(a, b) == IF a <= b THEN a ELSE b

\* int(len(u) * 0.4): the double product truncated, which is floor(2 len / 5)
\* for every length up to 40
\* FortyPercentTruncated rounding up instead of truncating
FortyPercentRoundedUp(n) == (2 * n + 4) \div 5

FortyPercentTruncated(n) == (2 * n) \div 5

looks_botty_username(u) ==
    \/ u = <<>>
    \/ CountDigit(u) >= Max(5, FortyPercentTruncated(Len(u)))
    \/ MatchesLettersThenDigits(u)

\* The reason strings, as sequences of words (a comma is a word of its own),
\* so that the "in" tests of the scoring loop are substring tests here too.
ReasonZeroPosts    == <<"0", "posts", "(public)">>
ReasonNoBio        == <<"no", "bio", "(public)">>
ReasonFollowRatio  == <<"following", "very", "high", ",", "followers", "very", "low">>
ReasonFollowingMax == <<"following", "extremely", "high">>
ReasonBotUsername  == <<"bot-like", "username", "pattern">>

\* key in r
Contains(r, key) ==
    \E i \in 0..(Len(r) - Len(key)) : SubSeq(r, i + 1, i + Len(key)) = key

\* ReasonWeight with the first test matching any "following ..." reason
ReasonWeightAnyFollowing(r) ==
    IF Contains(r, <<"following">>) THEN 3
    ELSE IF Contains(r, <<"0", "posts">>) THEN 2
    ELSE IF Contains(r, <<"bot-like", "username">>) THEN 2
    ELSE 1

\* the weight the scoring loop adds for one reason
ReasonWeight(r) ==
    IF Contains(r, <<"following", "very", "high">>) THEN 3
    ELSE IF Contains(r, <<"0", "posts">>) THEN 2
    ELSE IF Contains(r, <<"bot-like", "username">>) THEN 2
    ELSE 1

When(cond, r) == IF cond THEN <<r>> ELSE <<>>

ReasonsOf(f) ==
       When(~f.is_private /\ f.posts = 0, ReasonZeroPosts)
    \o When(~f.is_private /\ ~f.has_bio, ReasonNoBio)
    \o When(f.following >= 1500 /\ f.followers <= 50, ReasonFollowRatio)
    \o When(f.following >= 3000, ReasonFollowingMax)
    \o When(looks_botty_username(f.username), ReasonBotUsername)

\* a score without the deduction for a private account
ScoreOfNoDeduction(f, reasons) ==
    SumSeq([i \in DOMAIN reasons |-> ReasonWeight(reasons[i])])

ScoreOf(f, reasons) ==
    LET score == SumSeq([i \in DOMAIN reasons |-> ReasonWeight(reasons[i])])
    IN  IF f.is_private THEN Max(0, score - 1) ELSE score

\* a classifier that flags from a score of 3
classify_likely_fake_from_three(f) ==
    LET reasons == ReasonsOf(f)
    IN  <<ScoreOf(f, reasons) >= 3, reasons>>

\* <<likely_fake, reasons>>
classify_likely_fake(f) ==
    LET reasons == ReasonsOf(f)
    IN  <<ScoreOf(f, reasons) >= 4, reasons>>


-----------------------------------------------------------------------------
(* The Metrics Engine as a state machine: a profile is given, the report is *)
(* computed.                                                                *)

MaxRun == 6          \* a profile holds up to two runs of up to MaxRun equal posts
MaxComments == 10    \* a profile holds up to MaxComments scraped comments

FollowerVals == {0, 1, 5000, 10000, 100000}
\* <<likes (in 1/LikesDen), comments_count>> of a post
PostKinds == {<<19, 0>>, <<21, 0>>, <<40, 3>>, <<0, 1>>}

User(i) == <<"u", "s", "e", "r", LowerSeq[i]>>
Txt(i) == <<"t", "e", "x", "t", LowerSeq[i]>>
TNice == <<"n", "i", "c", "e">>
TWow == <<"w", "o", "w">>
TCool == <<"c", "o", "o", "l">>
TOk == <<"o", "k">>
TNiceUpper == <<" ", "N", "I", "C", "E", " ">>
TBangs == <<"!", "!", "!", "!", "!", "!", "!", "!", "!", "!", "!", "!", "!">>
Comment(u, t) == [username |-> u, text |-> t]

\* Three streams of scraped comments; a profile's comments are a prefix of one.
\* The first ten of stream 1 hold 6 generic texts, 7 distinct texts and 10
\* distinct commenters.  The first seven of stream 3 hold 5 generic texts,
\* 4 distinct texts and 4 distinct commenters; its first ten hold 7 distinct
\* commenters.
CommentStream(k) ==
    IF k = 1
    THEN << Comment(User(1), TNice),   Comment(User(2), Txt(1)),
            Comment(User(3), TWow),    Comment(User(4), Txt(2)),
            Comment(User(5), TCool),   Comment(User(6), Txt(3)),
            Comment(User(7), TOk),     Comment(User(8), TNiceUpper),
            Comment(User(9), TWow),    Comment(User(10), Txt(1)),
            Comment(User(11), Txt(4)), Comment(User(12), Txt(5)) >>
    ELSE IF k = 2
    THEN << Comment(User(1), Txt(1)),  Comment(User(2), Txt(2)),
            Comment(User(3), TBangs),  Comment(User(1), Txt(3)),
            Comment(User(4), Txt(4)),  Comment(User(5), <<>>),
            Comment(<<>>, Txt(5)),     Comment(User(2), Txt(6)),
            Comment(User(6), Txt(7)),  Comment(User(7), Txt(8)),
            Comment(User(3), Txt(9)),  Comment(User(8), Txt(2)) >>
    ELSE << Comment(User(1), TNice),   Comment(User(2), TNice),
            Comment(User(1), TWow),    Comment(User(2), TNice),
            Comment(User(3), Txt(1)),  Comment(User(1), TWow),
            Comment(User(4), Txt(2)),  Comment(User(5), Txt(3)),
            Comment(User(6), Txt(4)),  Comment(User(7), Txt(5)),
            Comment(User(8), Txt(6)),  Comment(User(9), Txt(7)) >>

Repeat(x, n) == [i \in 1..n |-> x]

\* the comments of post i when the comments cs are dealt out to np posts in turn
DealtTo(cs, np, i) ==
    LET cnt == IF i <= Len(cs) THEN (Len(cs) - i) \div np + 1 ELSE 0
    IN  [k \in 1..cnt |-> cs[i + (k - 1) * np]]

MkProfile(followers, kinds, cs) ==
    [ followers |-> followers,
      posts |-> [i \in DOMAIN kinds |->
                    [ likes |-> kinds[i][1],
                      comments_count |-> kinds[i][2],
                      comments |-> DealtTo(cs, Len(kinds), i) ]] ]

ProfileInputs ==
    { MkProfile(f, Repeat(a, k1) \o Repeat(b, k2),
                SubSeq(CommentStream(s), 1, Min(n, Len(CommentStream(s))))) :
        f \in FollowerVals, a \in PostKinds, b \in PostKinds,
        k1 \in 0..MaxRun, k2 \in 0..MaxRun, s \in 1..3, n \in 0..MaxComments }

-----------------------------------------------------------------------------
(* The Bot Classifier as a state machine: a record is given, it is          *)
(* classified.                                                              *)

MaxLetters == 9      \* a generated username starts with up to MaxLetters letters
MaxDigits == 6       \* followed by up to MaxDigits digits

UsernameInputs ==
    { Repeat(l, a) \o Repeat("7", b) \o t :
        l \in {"a", "Z"}, a \in 0..MaxLetters, b \in 0..MaxDigits,
        t \in {<<>>, <<"_">>, <<"x">>} }
    \cup { <<"a", "b", "c", "1", "2", "3", "4">> }

FollowerRecordInputs ==
    [ username : UsernameInputs,
      followers : {10, 50, 51},
      following : {0, 1499, 1500, 3000, 4000},
      posts : {0, 1},
      has_bio : BOOLEAN,
      is_private : BOOLEAN ]


-----------------------------------------------------------------------------
(* Audit runs: profile_basic, profile_audit, follower_audit                *)

\* A page URL is its path, a sequence of segments; a profile page's segment
\* is the token "{username}", a post page's second segment "{shortcode}".
HomeUrl == <<>>
ProfileUrl == <<"{username}">>
PostUrl == <<"p", "{shortcode}">>
AccountsLoginUrl == <<"accounts", "login">>
LoginUrl == <<"login">>

\* the first test of ensure_logged_in_or_raise alone
accounts_login_in(url) == Contains(url, <<"accounts", "login">>)

\* ensure_logged_in_or_raise raises: "accounts/login" in url or "/login" in url
ensure_logged_in_or_raise(url) ==
    \/ Contains(url, <<"accounts", "login">>)
    \/ \E i \in DOMAIN url : url[i] = "login"

\* where a navigation can end: the page asked for, or a redirect to a login page
Landings(url) == {url, AccountsLoginUrl, LoginUrl}

TargetHandle == <<"t", "g", "t">>

\* profile_url as urlparse splits it: whether it has "scheme://host", and
\* the segments of its path (u.path.split("/"))
ProfileUrlInputs ==
    { [netloc |-> TRUE, path |-> <<TargetHandle>>],
      [netloc |-> TRUE, path |-> << <<>>, TargetHandle, <<>> >>],
      [netloc |-> TRUE, path |-> << <<"R", "e", "e", "l">>, <<"x">> >>],
      [netloc |-> TRUE, path |-> << <<>> >>] }

\* more references: a post URL, the handle "Post", and the string "@tgt"
\* (urlparse finds no scheme and no host in it: the whole string is the path)
OtherProfileUrlInputs ==
    { [netloc |-> TRUE, path |-> << <<>>, <<"p">>, <<"x">>, <<>> >>],
      [netloc |-> TRUE, path |-> << <<>>, <<"P", "o", "s", "t">>, <<>> >>],
      [netloc |-> FALSE, path |-> << <<"@", "t", "g", "t">> >>] }

ReservedSegments == { <<"p">>, <<"r", "e", "e", "l">>, <<"s", "t", "o", "r", "i", "e", "s">>,
                      <<"e", "x", "p", "l", "o", "r", "e">>,
                      <<"a", "c", "c", "o", "u", "n", "t", "s">> }

\* extract_username comparing the handle as typed, without lower()
extract_username_as_typed(profile_url) ==
    LET parts == SelectSeq(profile_url.path, LAMBDA seg : seg # <<>>)
    IN  IF parts = <<>> THEN <<FALSE, <<>> >>
        ELSE LET username == Strip(parts[1])
             IN  IF username \in ReservedSegments THEN <<FALSE, <<>> >>
                 ELSE <<TRUE, username>>

\* extract_username: <<ok, username>>; ok = FALSE when it raises ValueError
extract_username(profile_url) ==
    LET parts == SelectSeq(profile_url.path, LAMBDA seg : seg # <<>>)
    IN  IF parts = <<>> THEN <<FALSE, <<>> >>
        ELSE LET username == Strip(parts[1])
             IN  IF Lower(username) \in ReservedSegments THEN <<FALSE, <<>> >>
                 ELSE <<TRUE, username>>

\* max(lo, min(int(x), hi))
ClampArg(lo, x, hi) == Max(lo, Min(x, hi))

Operations == {"profile_basic", "profile_audit", "follower_audit"}

\* the arguments a caller passes
NPostsArgs == {0, 2, 3}
CommentsPerPostArgs == {0, 2, 200}
SampleSizeArgs == {-5, 0, 2, 3, 10000}
DelayArgs == {700}

\* The state of a run.  pc is the statement the run is at (it stays there
\* when the statement raises); outcome is "running", "returned" or "raised".
NewRun(op, url, np, cpp, ss, dm) ==
    [ op |-> op, pc |-> "start", outcome |-> "running", error |-> "none",
      args |-> [profile_url |-> url, n_posts |-> np, comments_per_post |-> cpp,
                sample_size |-> ss, delay_ms |-> dm],
      username |-> <<>>, n_posts |-> 0, comments_per_post |-> 0,
      sample_size |-> 0, delay_ms |-> 0,
      playwright |-> "none",      \* none, running, stopped
      context |-> "none",         \* none, open, closed
      opened |-> 0,               \* launch_persistent_context calls
      url |-> HomeUrl,            \* page.url
      checked |-> FALSE,          \* page.url passed ensure_logged_in_or_raise
      counts |-> <<0, 0, 0>>,     \* followers, following, posts_count
      posts_data |-> <<>>, posts |-> <<>>,
      link |-> "none",            \* the followers link: none, found
      dialog |-> "none",          \* the followers dialog: none, open
      usernames |-> <<>>, iterations |-> 0, scrolls |-> 0,
      follower_usernames |-> <<>>, followers_data |-> <<>>,
      result |-> <<>>,
      request |-> <<>> ]          \* the HTTP request, <<>> for a direct call

IdleRun == [NewRun("none", [netloc |-> FALSE, path |-> <<>>], 0, 0, 0, 0)
                EXCEPT !.pc = "idle"]

\* the calls made: each operation with the arguments it takes
RunInputs ==
    { NewRun("profile_basic", url, 30, 30, 200, 700) : url \in ProfileUrlInputs }
    \cup { NewRun("profile_audit", url, np, cpp, 200, 700) :
              url \in ProfileUrlInputs, np \in NPostsArgs, cpp \in CommentsPerPostArgs }
    \cup { NewRun("follower_audit", url, 30, 30, ss, dm) :
              url \in ProfileUrlInputs, ss \in SampleSizeArgs, dm \in DelayArgs }
    \cup { NewRun(op, url, 2, 2, 2, 700) :
              op \in Operations, url \in OtherProfileUrlInputs }

\* The requests the HTTP layer receives: the fields of the pydantic models,
\* an Optional[int] being <<>> (None) or <<v>>.
HttpUrlInputs ==
    { [netloc |-> TRUE, path |-> <<TargetHandle>>],
      [netloc |-> TRUE, path |-> << <<>> >>] }
HttpNPosts == {<<>>, <<3>>}
HttpCommentsPerPost == {<<>>, <<0>>, <<2>>, <<200>>}
HttpSampleSize == {<<0>>, <<10000>>}
HttpDelay == {<<>>}

HttpRequest(url, np, cpp, ss, dm) ==
    [ profile_url |-> url, n_posts |-> np, comments_per_post |-> cpp,
      sample_size |-> ss, delay_ms |-> dm ]

\* a request received by the endpoint of op, the engine not yet called
HttpRun(op, req) ==
    [NewRun(op, req.profile_url, 30, 30, 200, 700)
        EXCEPT !.pc = "endpoint", !.request = <<req>>]

HttpRunInputs ==
    { HttpRun("profile_basic", HttpRequest(url, <<>>, <<>>, <<>>, <<>>)) :
          url \in HttpUrlInputs }
    \cup { HttpRun("profile_audit", HttpRequest(url, np, cpp, <<>>, <<>>)) :
              url \in HttpUrlInputs, np \in HttpNPosts, cpp \in HttpCommentsPerPost }
    \cup { HttpRun("follower_audit", HttpRequest(url, <<>>, <<>>, ss, dm)) :
              url \in HttpUrlInputs, ss \in HttpSampleSize, dm \in HttpDelay }

\* int(x or default): None and 0 are both falsy
OrDefault(x, default) == IF x = <<>> \/ x[1] = 0 THEN default ELSE x[1]

NewHist == [ login_landings |-> 0,      \* navigations that ended on a login page
             items_at_login |-> 0,      \* posts and followers processed by then
             extractions |-> 0,         \* extractions made on unchecked pages
             timed_out |-> {},          \* indexes of posts whose navigation timed out
             failed |-> {},             \* indexes of followers whose lookup failed
             missing_fields |-> FALSE ] \* the profile response lacked data.user or a count

\* an exception propagates out of the run: "async with async_playwright()"
\* exits and stops Playwright; context.close() is not on this path
Raise(r, error) ==
    [r EXCEPT !.outcome = "raised", !.error = error,
              !.playwright = IF r.playwright = "running" THEN "stopped" ELSE @]

Running(pc) == run.outcome = "running" /\ run.pc = pc

ItemsProcessed(r) == Len(r.posts) + Len(r.followers_data)

\* page.goto(url) ended on the page `landed`
Landed(r, landed) == [r EXCEPT !.url = landed, !.checked = FALSE]
LandedHist(r, landed) ==
    IF ensure_logged_in_or_raise(landed) \/ landed \in {AccountsLoginUrl, LoginUrl}
    THEN [hist EXCEPT !.login_landings = @ + 1, !.items_at_login = ItemsProcessed(r)]
    ELSE hist

\* app.py, ig_profile_basic / ig_profile_audit / ig_follower_audit: the
\* arguments the endpoint passes to the engine
Endpoint ==
    /\ UNCHANGED <<profile, metrics, frec, verdict, server, call, db>>
    /\ Running("endpoint")
    /\ LET req == run.request[1]
       IN  run' = [run EXCEPT
                     !.pc = "start",
                     !.args.n_posts =
                         IF run.op = "profile_audit"
                         THEN ClampArg(5, OrDefault(req.n_posts, 30), 60) ELSE @,
                     !.args.comments_per_post =
                         IF run.op = "profile_audit"
                         THEN ClampArg(0, OrDefault(req.comments_per_post, 30), 80) ELSE @,
                     !.args.sample_size =
                         IF run.op = "follower_audit"
                         THEN ClampArg(50, OrDefault(req.sample_size, 200), 500) ELSE @,
                     !.args.delay_ms =
                         IF run.op = "follower_audit"
                         THEN ClampArg(300, OrDefault(req.delay_ms, 700), 2000) ELSE @]
    /\ UNCHANGED hist

\* lines 314, 343-345, 581-583: the handle and the clamped arguments
Start ==
    /\ UNCHANGED <<profile, metrics, frec, verdict, server, call, db>>
    /\ Running("start")
    /\ LET eu == extract_username(run.args.profile_url)
       IN  run' = IF ~eu[1] THEN Raise(run, "ValueError")
                  ELSE [run EXCEPT
                          !.pc = "launch",
                          !.username = eu[2],
                          !.n_posts = ClampArg(1, run.args.n_posts, 60),
                          !.comments_per_post = ClampArg(0, run.args.comments_per_post, 80),
                          !.sample_size = ClampArg(1, run.args.sample_size, 500),
                          !.delay_ms = ClampArg(300, run.args.delay_ms, 2000)]
    /\ UNCHANGED hist

\* async_playwright(), launch_persistent_context(SESSION_DIR), new_page()
Launch ==
    /\ UNCHANGED <<profile, metrics, frec, verdict, server, call, db>>
    /\ Running("launch")
    /\ run' = [run EXCEPT !.pc = "goto_home", !.playwright = "running",
                          !.context = "open", !.opened = @ + 1]
    /\ UNCHANGED hist

\* page.goto("https://www.instagram.com/"): lands, or raises
GotoHome ==
    /\ UNCHANGED <<profile, metrics, frec, verdict, server, call, db>>
    /\ Running("goto_home")
    /\ \/ \E landed \in Landings(HomeUrl) :
            /\ run' = [Landed(run, landed) EXCEPT !.pc = "check_home"]
            /\ hist' = LandedHist(run, landed)
       \/ \E e \in {"PlaywrightTimeoutError", "PlaywrightError"} :
            /\ run' = Raise(run, e)
            /\ UNCHANGED hist

\* ensure_logged_in_or_raise(page.url) after the first navigation
CheckHome ==
    /\ UNCHANGED <<profile, metrics, frec, verdict, server, call, db>>
    /\ Running("check_home")
    /\ run' = IF ensure_logged_in_or_raise(run.url) THEN Raise(run, "NotLoggedIn")
              ELSE [run EXCEPT !.checked = TRUE,
                               !.pc = IF run.op = "follower_audit" THEN "goto_profile"
                                      ELSE "fetch_profile"]
    /\ UNCHANGED hist


-----------------------------------------------------------------------------
(* The Profile Collector and profile_basic / profile_audit                 *)

\* an optional JSON field: <<>> when missing, <<v>> when present
Opt(v) == <<v>>
Or0(x) == IF x = <<>> THEN 0 ELSE x[1]

\* edges[].node of the structured endpoint: shortcode ("" when missing),
\* edge_liked_by.count, edge_media_to_comment.count
Node(sc, likes, comments) == [shortcode |-> sc, likes |-> likes, comments |-> comments]
NodeA == Node("A", Opt(5), Opt(1))
NodeB == Node("B", Opt(0), <<>>)
NodeC == Node("C", Opt(9), Opt(4))
NodeNoShortcode == Node("", Opt(3), Opt(3))

\* data.user of the response (<<>> when missing)
WebUser(followers, following, posts_count, edges, is_private, biography) ==
    [ followers |-> followers, following |-> following, posts_count |-> posts_count,
      edges |-> edges, is_private |-> is_private, biography |-> biography ]

\* the 200 responses of web_profile_info for the audited profile
ProfileJsonInputs ==
    { [user |-> <<>>] }
    \cup { [user |-> Opt(WebUser(Opt(5000), Opt(10), Opt(3), edges, FALSE, <<"h", "i">>))] :
             edges \in { <<>>, <<NodeA>>, <<NodeA, NodeB>>, <<NodeA, NodeNoShortcode, NodeB>>,
                         <<NodeA, NodeB, NodeA>>, <<NodeA, NodeB, NodeC>> } }
    \cup { [user |-> Opt(WebUser(<<>>, Opt(10), <<>>, <<NodeC>>, FALSE, <<>>))] }

\* the response lacks data.user or one of the three counts
MissingFields(web_json) ==
    \/ web_json.user = <<>>
    \/ \E count \in { web_json.user[1].followers, web_json.user[1].following,
                       web_json.user[1].posts_count } : count = <<>>

\* parse_profile_from_webjson: <<followers, following, posts_count, posts_data>>
parse_profile_from_webjson(web_json) ==
    LET has == web_json.user # <<>>
        user == web_json.user[1]
        edges == IF has THEN SelectSeq(user.edges, LAMBDA n : n.shortcode # "") ELSE <<>>
    IN  << IF has THEN Or0(user.followers) ELSE 0,
           IF has THEN Or0(user.following) ELSE 0,
           IF has THEN Or0(user.posts_count) ELSE 0,
           [i \in DOMAIN edges |->
               [ shortcode |-> edges[i].shortcode,
                 likes |-> Or0(edges[i].likes),
                 comments_count |-> Or0(edges[i].comments) ]] >>

\* the de-duplication that ends scrape_post_comments: the first comment of
\* each (lowercased username, lowercased text) is kept
CommentKey(c) == <<Lower(c.username), Lower(c.text)>>
\* a pass that drops the first repeated comment it meets and stops there
RECURSIVE DedupFirstRepeat(_, _)
DedupFirstRepeat(comments, seen) ==
    IF comments = <<>> THEN <<>>
    ELSE LET c == Head(comments)
         IN  IF CommentKey(c) \in seen THEN Tail(comments)
             ELSE <<c>> \o DedupFirstRepeat(Tail(comments), seen \cup {CommentKey(c)})

RECURSIVE DedupComments(_, _)
DedupComments(comments, seen) ==
    IF comments = <<>> THEN <<>>
    ELSE LET c == Head(comments)
         IN  IF CommentKey(c) \in seen THEN DedupComments(Tail(comments), seen)
             ELSE <<c>> \o DedupComments(Tail(comments), seen \cup {CommentKey(c)})

\* the records the first yielding strategy finds on a post page
RawCommentInputs ==
    { <<>>,
      <<Comment(User(1), TNice)>>,
      <<Comment(User(1), TNice), Comment(User(1), <<"N", "i", "c", "e">>),
        Comment(User(2), Txt(1))>> }

\* scrape_post_comments: the strategy stops collecting at max_comments
\* records, then the list is de-duplicated
scrape_post_comments(raw, max_comments) ==
    DedupComments(SubSeq(raw, 1, Min(Len(raw), max_comments)), {})

\* a record that keeps the counts of the scraped posts only
PostRecordOfScraped(post_info, comments) ==
    [ shortcode |-> post_info.shortcode,
      likes |-> IF comments = <<>> THEN 0 ELSE post_info.likes,
      comments_count |-> IF comments = <<>> THEN 0 ELSE post_info.comments_count,
      comments |-> comments ]

\* the PostRecord appended for post_info (lines 389-397)
PostRecord(post_info, comments) ==
    [ shortcode |-> post_info.shortcode, likes |-> post_info.likes,
      comments_count |-> post_info.comments_count, comments |-> comments ]

\* the loop body's end: the post is appended with the comments collected
AppendPost(r, comments) ==
    [r EXCEPT !.posts = Append(@, PostRecord(r.posts_data[Len(r.posts) + 1], comments)),
              !.pc = "post_loop"]

\* fetch_web_profile_info + parse_counts / parse_profile_from_webjson
FetchProfile ==
    /\ UNCHANGED <<profile, metrics, frec, verdict, server, call, db>>
    /\ Running("fetch_profile")
    /\ \/ /\ run' = Raise(run, "UpstreamHTTPError")
          /\ UNCHANGED hist
       \/ \E web_json \in ProfileJsonInputs :
            LET parsed == parse_profile_from_webjson(web_json)
            IN  /\ run' = [run EXCEPT
                            !.counts = <<parsed[1], parsed[2], parsed[3]>>,
                            !.posts_data = IF run.op = "profile_audit"
                                           THEN SubSeq(parsed[4], 1, Min(Len(parsed[4]), run.n_posts))
                                           ELSE <<>>,
                            !.pc = IF run.op = "profile_audit" THEN "post_loop" ELSE "close"]
                /\ hist' = [hist EXCEPT !.missing_fields = MissingFields(web_json)]

MorePosts == Len(run.posts) < Len(run.posts_data)

\* comments_per_post = 0: the post is appended without a navigation
PostWithoutComments ==
    /\ UNCHANGED <<profile, metrics, frec, verdict, server, call, db>>
    /\ Running("post_loop") /\ MorePosts
    /\ run.comments_per_post = 0
    /\ run' = AppendPost(run, <<>>)
    /\ UNCHANGED hist

\* page.goto(post_url) inside try / except PlaywrightTimeoutError
PostGoto ==
    /\ UNCHANGED <<profile, metrics, frec, verdict, server, call, db>>
    /\ Running("post_loop") /\ MorePosts
    /\ run.comments_per_post > 0
    /\ \/ \E landed \in Landings(PostUrl) :
            /\ run' = [Landed(run, landed) EXCEPT !.pc = "check_post"]
            /\ hist' = LandedHist(run, landed)
       \/ /\ run' = AppendPost(run, <<>>)
          /\ hist' = [hist EXCEPT !.timed_out = @ \cup {Len(run.posts) + 1}]
       \/ /\ run' = Raise(run, "PlaywrightError")
          /\ UNCHANGED hist

\* ensure_logged_in_or_raise(page.url) on the post page (line 383)
CheckPost ==
    /\ UNCHANGED <<profile, metrics, frec, verdict, server, call, db>>
    /\ Running("check_post")
    /\ run' = IF ensure_logged_in_or_raise(run.url) THEN Raise(run, "NotLoggedIn")
              ELSE [run EXCEPT !.checked = TRUE, !.pc = "scrape"]
    /\ UNCHANGED hist

UncheckedExtraction(r) ==
    IF r.checked /\ r.url \notin {AccountsLoginUrl, LoginUrl} THEN 0 ELSE 1

\* wait_for_timeout + scrape_post_comments (lines 384-385): returns the
\* comments, or a page error leaves the try block uncaught
PostScrape ==
    /\ UNCHANGED <<profile, metrics, frec, verdict, server, call, db>>
    /\ Running("scrape")
    /\ \/ /\ \E raw \in RawCommentInputs :
                run' = AppendPost(run, scrape_post_comments(raw, run.comments_per_post))
          /\ hist' = [hist EXCEPT !.extractions = @ + UncheckedExtraction(run)]
       \/ /\ run' = Raise(run, "PlaywrightError")
          /\ UNCHANGED hist

\* the profile handed to compute_profile_metrics: likes in 1/LikesDen
MetricsProfile(followers, posts) ==
    [ followers |-> followers,
      posts |-> [i \in DOMAIN posts |-> [posts[i] EXCEPT !.likes = LikesDen * @]] ]

\* context.close(), the end of "async with", and the value returned
ProfileResult(r) ==
    IF r.op = "profile_basic"
    THEN [ username |-> r.username, followers |-> r.counts[1],
           following |-> r.counts[2], posts_count |-> r.counts[3] ]
    ELSE [ username |-> r.username, followers |-> r.counts[1],
           following |-> r.counts[2], posts_count |-> r.counts[3],
           posts |-> r.posts,
           metrics |-> compute_profile_metrics(MetricsProfile(r.counts[1], r.posts)) ]

Returned(r, result) ==
    [r EXCEPT !.context = "closed", !.playwright = "stopped",
              !.outcome = "returned", !.result = <<result>>]

ProfileClose ==
    /\ UNCHANGED <<profile, metrics, frec, verdict, server, call, db>>
    /\ run.op \in {"profile_basic", "profile_audit"}
    /\ \/ Running("close")
       \/ Running("post_loop") /\ ~MorePosts
    /\ run' = Returned(run, ProfileResult(run))
    /\ UNCHANGED hist


-----------------------------------------------------------------------------
(* The Follower Sampler and follower_audit                                  *)

MaxAnchors == 2      \* profile links rendered in the modal at one harvest

HandleAnn == <<"a", "n", "n">>
HandleBot == <<"b", "o", "t", "1", "2", "3", "4", "5">>
HandleZoe == <<"z", "o", "e">>

\* the href of an anchor, as its path segments ("/ann/" is <<HandleAnn>>)
AnchorHrefs ==
    { <<HandleAnn>>, <<HandleBot>>, <<HandleZoe>>,
      << <<"T", "g", "t">> >>,
      << HandleAnn, <<"f", "o", "l", "l", "o", "w", "i", "n", "g">> >> }

RECURSIVE SeqsUpTo(_, _)
SeqsUpTo(S, n) ==
    IF n = 0 THEN {<<>>}
    ELSE LET shorter == SeqsUpTo(S, n - 1)
         IN  shorter \cup {Append(q, x) : q \in shorter, x \in S}

AnchorLists == SeqsUpTo(AnchorHrefs, MaxAnchors)

\* re.match(r"^/([A-Za-z0-9._]+)/$", href): one non-empty segment of handle characters
HrefMatches(href) ==
    /\ Len(href) = 1
    /\ href[1] # <<>>
    /\ \A i \in DOMAIN href[1] : IsAlpha(href[1][i]) \/ IsDigit(href[1][i])
                                   \/ href[1][i] \in {".", "_"}

\* harvest(): the handles of the anchors, the target's own excluded
Harvested(anchors, target_username) ==
    LET hit == SelectSeq(anchors,
                   LAMBDA href : HrefMatches(href)
                                 /\ Lower(href[1]) # Lower(target_username))
    IN  [i \in DOMAIN hit |-> hit[i][1]]

\* list(dict.fromkeys(usernames)): first occurrences, in order
RECURSIVE DedupKeepFirst(_, _)
DedupKeepFirst(xs, seen) ==
    IF xs = <<>> THEN <<>>
    ELSE IF Head(xs) \in seen THEN DedupKeepFirst(Tail(xs), seen)
    ELSE <<Head(xs)>> \o DedupKeepFirst(Tail(xs), seen \cup {Head(xs)})

\* usernames, without the slice
WholeList(xs, n) == xs

\* usernames[:sample_size]
FirstN(xs, n) == SubSeq(xs, 1, Min(Len(xs), n))

MaxScrollIterations == 90

\* the 200 responses of web_profile_info for a follower
FollowerJsonInputs ==
    { [user |-> <<>>],
      [user |-> Opt(WebUser(Opt(300), Opt(200), Opt(12), <<>>, FALSE, <<"h", "i">>))],
      [user |-> Opt(WebUser(Opt(3), Opt(4000), Opt(0), <<>>, FALSE, <<" ">>))],
      [user |-> Opt(WebUser(Opt(10), Opt(2000), <<>>, <<>>, TRUE, <<>>))] }

\* lines 603-619: the stats of a follower whose lookup succeeded
ResolvedStats(u, wj) ==
    LET parsed == parse_profile_from_webjson(wj)
        has == wj.user # <<>>
    IN  [ username |-> u, followers |-> parsed[1], following |-> parsed[2],
          posts |-> parsed[3],
          is_private |-> IF has THEN wj.user[1].is_private ELSE FALSE,
          has_bio |-> IF has THEN Strip(wj.user[1].biography) # <<>> ELSE FALSE ]

\* lines 620-629: the stats of a follower whose lookup raised
ZeroedStats(u) ==
    [ username |-> u, followers |-> 0, following |-> 0, posts |-> 0,
      is_private |-> FALSE, has_bio |-> FALSE ]

\* lines 631-636: the follower is classified and appended
Classified(stats) ==
    LET c == classify_likely_fake(stats)
    IN  [ username |-> stats.username, followers |-> stats.followers,
          following |-> stats.following, posts |-> stats.posts,
          is_private |-> stats.is_private, has_bio |-> stats.has_bio,
          likely_fake |-> c[1], reasons |-> c[2] ]

\* a loop body that leaves out the follower whose lookup raised
AfterLookupOfResolved(followers_data, u, failed, wj) ==
    IF failed THEN followers_data
    ELSE Append(followers_data, Classified(ResolvedStats(u, wj)))

\* the followers_data after the loop body for u; failed: the lookup raised
AfterLookup(followers_data, u, failed, wj) ==
    Append(followers_data,
           Classified(IF failed THEN ZeroedStats(u) ELSE ResolvedStats(u, wj)))

\* a tally that takes the reasons of every collected follower
RECURSIVE ConcatAllReasons(_)
ConcatAllReasons(fs) ==
    IF fs = <<>> THEN <<>>
    ELSE Head(fs).reasons \o ConcatAllReasons(Tail(fs))

\* lines 644-648 and 656: the reasons of the flagged followers in order of
\* first occurrence, each with its count, sorted by count, descending (stable)
RECURSIVE ConcatReasons(_)
ConcatReasons(fs) ==
    IF fs = <<>> THEN <<>>
    ELSE (IF Head(fs).likely_fake THEN Head(fs).reasons ELSE <<>>)
         \o ConcatReasons(Tail(fs))

ReasonCounts(followers_data) ==
    LET all == ConcatReasons(followers_data)
        keys == DedupKeepFirst(all, {})
        count(k) == Cardinality({i \in DOMAIN all : all[i] = keys[k]})
        rank(k) == 1 + Cardinality({j \in DOMAIN keys :
                            \/ count(j) > count(k)
                            \/ (count(j) = count(k) /\ j < k)})
    IN  [pos \in DOMAIN keys |->
            LET k == CHOOSE k \in DOMAIN keys : rank(k) = pos
            IN  <<keys[k], count(k)>>]

\* an AuditResult whose percentage is taken over the requested sample size
FollowerResultOverRequested(r) ==
    LET n == Len(r.followers_data)
        fakes == Cardinality({i \in 1..n : r.followers_data[i].likely_fake})
    IN  [ target_username |-> r.username,
          sample_size_requested |-> r.sample_size,
          sample_size_collected |-> n,
          likely_bot_like_pct |-> RoundDiv(10000 * fakes, r.sample_size),
          reason_counts |-> ReasonCounts(r.followers_data),
          followers_sample_preview |-> FirstN(r.followers_data, 30) ]

\* the AuditResult (lines 642-658)
FollowerResult(r) ==
    LET n == Len(r.followers_data)
        fakes == Cardinality({i \in 1..n : r.followers_data[i].likely_fake})
    IN  [ target_username |-> r.username,
          sample_size_requested |-> r.sample_size,
          sample_size_collected |-> n,
          likely_bot_like_pct |-> IF n > 0 THEN RoundDiv(10000 * fakes, n) ELSE 0,
          reason_counts |-> ReasonCounts(r.followers_data),
          followers_sample_preview |-> FirstN(r.followers_data, 30) ]

\* page.goto(profile_url) in collect_follower_usernames: nothing catches here
GotoProfile ==
    /\ UNCHANGED <<profile, metrics, frec, verdict, server, call, db>>
    /\ Running("goto_profile")
    /\ \/ \E landed \in Landings(ProfileUrl) :
            /\ run' = [Landed(run, landed) EXCEPT !.pc = "check_profile"]
            /\ hist' = LandedHist(run, landed)
       \/ \E e \in {"PlaywrightTimeoutError", "PlaywrightError"} :
            /\ run' = Raise(run, e)
            /\ UNCHANGED hist

CheckProfile ==
    /\ UNCHANGED <<profile, metrics, frec, verdict, server, call, db>>
    /\ Running("check_profile")
    /\ run' = IF ensure_logged_in_or_raise(run.url) THEN Raise(run, "NotLoggedIn")
              ELSE [run EXCEPT !.checked = TRUE, !.pc = "find_link"]
    /\ UNCHANGED hist

\* lines 473-506: the four locators, tried in turn; 0: none finds the link
FindFollowersLink ==
    /\ UNCHANGED <<profile, metrics, frec, verdict, server, call, db>>
    /\ Running("find_link")
    /\ \E found_by \in 0..4 :
         run' = IF found_by = 0 THEN Raise(run, "UIElementNotFound")
                ELSE [run EXCEPT !.link = "found", !.pc = "click_link"]
    /\ hist' = [hist EXCEPT !.extractions = @ + UncheckedExtraction(run)]

\* the dialog lookup without the test of lines 534-535
OpenFollowersDialogUnchecked ==
    /\ UNCHANGED <<profile, metrics, frec, verdict, server, call, db>>
    /\ Running("click_link")
    /\ \E clicked \in BOOLEAN, dialog \in BOOLEAN :
         run' = IF ~clicked THEN Raise(run, "ClickBlocked")
                ELSE [run EXCEPT !.dialog = IF dialog THEN "open" ELSE "none",
                                 !.pc = "harvest"]
    /\ UNCHANGED hist

\* lines 508-535: overlays dismissed (errors swallowed), the link clicked
\* (forced, else by script), the dialog looked up
OpenFollowersDialog ==
    /\ UNCHANGED <<profile, metrics, frec, verdict, server, call, db>>
    /\ Running("click_link")
    /\ \E clicked \in BOOLEAN, dialog \in BOOLEAN :
         run' = IF ~clicked THEN Raise(run, "ClickBlocked")
                ELSE IF ~dialog THEN Raise(run, "UIElementNotFound")
                ELSE [run EXCEPT !.dialog = "open", !.pc = "harvest"]
    /\ UNCHANGED hist

\* a pass that scrolls before it tests the quota
HarvestIterationScrollFirst ==
    /\ UNCHANGED <<profile, metrics, frec, verdict, server, call, db>>
    /\ Running("harvest")
    /\ run.iterations < MaxScrollIterations
    /\ \/ /\ \E anchors \in AnchorLists :
               LET usernames == DedupKeepFirst(
                        run.usernames \o Harvested(anchors, run.username), {})
                   full == Len(usernames) >= run.sample_size
                   last == run.iterations + 1 = MaxScrollIterations
               IN  run' = [run EXCEPT
                             !.usernames = usernames,
                             !.iterations = @ + 1,
                             !.scrolls = @ + 1,
                             !.pc = IF full \/ last THEN "harvested" ELSE @]
          /\ hist' = [hist EXCEPT !.extractions = @ + UncheckedExtraction(run)]
       \/ /\ run' = Raise(run, "PlaywrightError")   \* the modal went away
          /\ UNCHANGED hist

\* one pass of "for _ in range(90)" (lines 569-575): harvest, de-duplicate,
\* break on the quota, else scroll and wait; the loop ends after the pass
\* that fills the quota and after pass 90
HarvestIteration ==
    /\ UNCHANGED <<profile, metrics, frec, verdict, server, call, db>>
    /\ Running("harvest")
    /\ run.iterations < MaxScrollIterations
    /\ \/ /\ \E anchors \in AnchorLists :
               LET usernames == DedupKeepFirst(
                        run.usernames \o Harvested(anchors, run.username), {})
                   full == Len(usernames) >= run.sample_size
                   last == run.iterations + 1 = MaxScrollIterations
               IN  run' = [run EXCEPT
                             !.usernames = usernames,
                             !.iterations = @ + 1,
                             !.scrolls = IF full THEN @ ELSE @ + 1,
                             !.pc = IF full \/ last THEN "harvested" ELSE @]
          /\ hist' = [hist EXCEPT !.extractions = @ + UncheckedExtraction(run)]
       \/ /\ run' = Raise(run, "PlaywrightError")   \* the modal went away
          /\ UNCHANGED hist

\* line 577: return usernames[:sample_size]; the pass and scroll counts are
\* locals of collect_follower_usernames and end with it
ReturnUsernames ==
    /\ UNCHANGED <<profile, metrics, frec, verdict, server, call, db>>
    /\ Running("harvested")
    /\ run' = [run EXCEPT
                  !.follower_usernames = FirstN(run.usernames, run.sample_size),
                  !.iterations = 0, !.scrolls = 0,
                  !.pc = "resolve"]
    /\ UNCHANGED hist

MoreFollowers == Len(run.followers_data) < Len(run.follower_usernames)

\* the body of "for u in follower_usernames" (lines 601-638)
ResolveFollower ==
    /\ UNCHANGED <<profile, metrics, frec, verdict, server, call, db>>
    /\ Running("resolve") /\ MoreFollowers
    /\ LET k == Len(run.followers_data) + 1
           u == run.follower_usernames[k]
       IN  \/ /\ run' = [run EXCEPT !.followers_data =
                                        AfterLookup(@, u, TRUE, [user |-> <<>>])]
              /\ hist' = [hist EXCEPT !.failed = @ \cup {k}]
           \/ /\ \E wj \in FollowerJsonInputs :
                    run' = [run EXCEPT !.followers_data = AfterLookup(@, u, FALSE, wj)]
              /\ UNCHANGED hist

FollowerClose ==
    /\ UNCHANGED <<profile, metrics, frec, verdict, server, call, db>>
    /\ Running("resolve") /\ ~MoreFollowers
    /\ run' = Returned(run, FollowerResult(run))
    /\ UNCHANGED hist

-----------------------------------------------------------------------------
(* The HTTP layer serving audit requests (app.py)                           *)

MaxRequests == 2     \* audit requests in flight at once

\* ig_tools.SESSION_DIR: the one persisted session directory
SESSION_DIR == "pw_ig_session"

\* A request in flight: the coroutine of its endpoint, which runs to its next
\* await and then yields to the event loop.  at is where it is suspended.
NewRequest(op, url) ==
    [ op |-> op, profile_url |-> url, at |-> "received",
      context |-> "none", user_data_dir |-> "none", response |-> "none" ]

ContextOpenOn(req, dir) == req.context = "open" /\ req.user_data_dir = dir

\* POST /ig/profile-basic, /ig/profile-audit or /ig/follower-audit arrives;
\* FastAPI starts the endpoint coroutine, whatever else is in flight
Receive ==
    /\ Len(server) < MaxRequests
    /\ \E op \in Operations, url \in HttpUrlInputs :
         server' = Append(server, NewRequest(op, url))
    /\ UNCHANGED <<profile, metrics, frec, verdict, run, hist, call, db>>

\* the endpoint calls the operation: extract_username, then
\* "async with async_playwright()" (the first await)
EnterOperation(i) ==
    /\ server[i].at = "received"
    /\ server' = [server EXCEPT ![i] =
          IF extract_username(server[i].profile_url)[1]
          THEN [@ EXCEPT !.at = "launch"]
          ELSE [@ EXCEPT !.at = "done", !.response = "error"]]
    /\ UNCHANGED <<profile, metrics, frec, verdict, run, hist, call, db>>

\* await p.chromium.launch_persistent_context(user_data_dir=SESSION_DIR)
OpenContext(i) ==
    /\ server[i].at = "launch"
    /\ server' = [server EXCEPT ![i] =
          [@ EXCEPT !.at = "audit", !.context = "open", !.user_data_dir = SESSION_DIR]]
    /\ UNCHANGED <<profile, metrics, frec, verdict, run, hist, call, db>>

\* the awaits of the audit (page.goto, requests, waits): the run goes on to
\* context.close() and returns, or an exception ends it with the context
\* not closed
FinishAudit(i) ==
    /\ server[i].at = "audit"
    /\ \/ server' = [server EXCEPT ![i] =
             [@ EXCEPT !.at = "done", !.context = "closed", !.response = "ok"]]
       \/ server' = [server EXCEPT ![i] =
             [@ EXCEPT !.at = "done", !.context = "stopped", !.response = "error"]]
    /\ UNCHANGED <<profile, metrics, frec, verdict, run, hist, call, db>>

-----------------------------------------------------------------------------
(* Functions applied to an argument: the de-duplication of comments         *)

\* a function applied: its argument, and its result once returned
NewCall(fn, arg) == [fn |-> fn, arg |-> arg, out |-> <<>>, again |-> <<>>]

MaxDedupLen == 4     \* comment records collected before the de-duplication

\* records that differ in letter case only, and records that differ
DedupCommentInputs ==
    { Comment(User(1), TNice), Comment(User(1), <<"N", "i", "c", "e">>),
      Comment(<<"U", "s", "e", "r", "a">>, TNice),
      Comment(User(2), TNice), Comment(User(2), TWow) }

CommentListInputs == SeqsUpTo(DedupCommentInputs, MaxDedupLen)

\* lines 297-305 applied to the comments collected
Dedupe ==
    /\ call # NoValue /\ call.fn = "dedup"
    /\ call.out = <<>>
    /\ call' = [call EXCEPT !.out = <<DedupComments(call.arg, {})>>]
    /\ UNCHANGED <<profile, metrics, frec, verdict, run, hist, server, db>>

\* lines 297-305 applied to their own output
DedupeAgain ==
    /\ call # NoValue /\ call.fn = "dedup"
    /\ call.out # <<>> /\ call.again = <<>>
    /\ call' = [call EXCEPT !.again = <<DedupComments(call.out[1], {})>>]
    /\ UNCHANGED <<profile, metrics, frec, verdict, run, hist, server, db>>

-----------------------------------------------------------------------------
(* The Bayesian Authenticity Estimator (app.py, authenticity_estimate)      *)
(*                                                                          *)
(* The thresholds on er and on the ratio are compared as exact rationals:   *)
(* for the integers of the inputs the double quotient is below the double   *)
(* threshold exactly when the rational is.  The kernels are carried in      *)
(* fixed point, in units of 1/KernelScale: exp is computed in base 2, with  *)
(* 2^(-k) interpolated linearly between the integers k, and a kernel value  *)
(* is at least one unit, as the double exp(...) + 1e-12 is positive         *)
(* everywhere on the grid.  The posterior is the sequence of the exact      *)
(* rationals weight / total.  variance_authenticity and confidence are not  *)
(* carried.                                                                 *)

KernelScale == 64

\* int(data.get(key) or 0): None is <<>>
IntOr0(x) == IF x = <<>> THEN 0 ELSE x[1]

\* a kernel: (mu, sigma) and the reason string of its bucket
KernelOf(mu, sigma, reason) == [mu |-> mu, sigma |-> sigma, reason |-> reason]

\* a selection that tests er <= threshold in place of er < threshold
EngagementKernelInclusive(followers, avg_likes, avg_comments) ==
    LET er == <<avg_likes + 3 * avg_comments, followers>>
    IN  IF ~RatLess(<<5, 1000>>, er)
        THEN KernelOf(35, 18, "Very low engagement rate -> possible fake/low-quality followers.")
        ELSE IF ~RatLess(<<2, 100>>, er)
        THEN KernelOf(60, 15, "Moderate-low engagement rate.")
        ELSE IF ~RatLess(<<6, 100>>, er)
        THEN KernelOf(75, 12, "Healthy engagement rate.")
        ELSE KernelOf(65, 20, "Very high engagement rate -> could be viral/small-account effect (uncertainty).")

\* lines 86-99: er = (avg_likes + 3 * avg_comments) / followers
EngagementKernel(followers, avg_likes, avg_comments) ==
    LET er == <<avg_likes + 3 * avg_comments, followers>>
    IN  IF RatLess(er, <<5, 1000>>)
        THEN KernelOf(35, 18, "Very low engagement rate -> possible fake/low-quality followers.")
        ELSE IF RatLess(er, <<2, 100>>)
        THEN KernelOf(60, 15, "Moderate-low engagement rate.")
        ELSE IF RatLess(er, <<6, 100>>)
        THEN KernelOf(75, 12, "Healthy engagement rate.")
        ELSE KernelOf(65, 20, "Very high engagement rate -> could be viral/small-account effect (uncertainty).")

\* lines 103-112: ratio = followers / following
RatioKernel(followers, following) ==
    LET ratio == <<followers, following>>
    IN  IF RatLess(ratio, <<1, 2>>)
        THEN KernelOf(55, 18, "Followers lower than following -> early-stage or follow-back behavior.")
        ELSE IF RatLess(ratio, <<2, 1>>)
        THEN KernelOf(65, 14, "Balanced follower/following ratio.")
        ELSE KernelOf(70, 14, "High follower/following ratio.")

\* lines 116-124
PostsKernel(posts) ==
    IF posts < 10 THEN KernelOf(55, 20, "Few posts -> higher uncertainty.")
    ELSE IF posts < 50 THEN KernelOf(65, 16, "Moderate number of posts.")
    ELSE KernelOf(70, 14, "Many posts -> more stable estimate.")

\* xs = np.arange(0, 101)
Grid == [i \in 1..101 |-> i - 1]

RECURSIVE Pow2(_)
Pow2(n) == IF n = 0 THEN 1 ELSE 2 * Pow2(n - 1)

\* np.exp(-0.5 * ((x - mu) / sigma) ** 2) + 1e-12, in units of 1/KernelScale:
\* exp(-q) = 2^(-k) with k = q * log2(e), k in thousandths
KernelValue(x, mu, sigma) ==
    LET d2 == (x - mu) * (x - mu)
        k == (d2 * 1443) \div (2 * sigma * sigma)
        whole == k \div 1000
        part == k % 1000
        scaled == IF whole > 20 THEN 0
                  ELSE (KernelScale * (2000 - part)) \div (2000 * Pow2(whole))
    IN  Max(1, scaled)

Likelihood(kernel) == [i \in DOMAIN Grid |-> KernelValue(Grid[i], kernel.mu, kernel.sigma)]

\* the largest weight, in place of the sum
LargestWeight(weights) == CHOOSE w \in Range(weights) : \A v \in Range(weights) : v <= w

\* posterior.sum()
Normaliser(weights) == SumSeq(weights)

\* round(num / den, 2) in hundredths, for 0 <= num and 0 < den
Round2(num, den) == 100 * (num \div den) + RoundDiv(100 * (num % den), den)

\* authenticity_estimate(data); percentages in hundredths; posterior[i] is
\* the rational weights[i] / total
authenticity_estimate(data) ==
    LET followers == Max(IntOr0(data.followers), 1)
        following == Max(IntOr0(data.following), 1)
        posts == Max(IntOr0(data.posts), 0)
        avg_likes == Max(IntOr0(data.avg_likes), 0)
        avg_comments == Max(IntOr0(data.avg_comments), 0)
        k1 == EngagementKernel(followers, avg_likes, avg_comments)
        k2 == RatioKernel(followers, following)
        k3 == PostsKernel(posts)
        L1 == Likelihood(k1)
        L2 == Likelihood(k2)
        L3 == Likelihood(k3)
        weights == [i \in DOMAIN Grid |-> L1[i] * L2[i] * L3[i]]
        total == Normaliser(weights)
        EXnum == SumSeq([i \in DOMAIN Grid |-> Grid[i] * weights[i]])
        fake == Clamp(0, 100 * total - EXnum, 100 * total)
        fake_pct == Round2(fake, total)
    IN  [ followers |-> followers, following |-> following,
          kernels |-> << <<k1.mu, k1.sigma>>, <<k2.mu, k2.sigma>>, <<k3.mu, k3.sigma>> >>,
          posterior |-> [weights |-> weights, total |-> total],
          fake_pct |-> fake_pct,
          real_pct |-> 10000 - fake_pct,
          expected_authenticity |-> Round2(EXnum, total),
          reasons |-> <<k1.reason, k2.reason, k3.reason>> ]

\* the fields of AnalyzeRequest the estimator reads: Optional[int]
EstimateInputs ==
    [ followers : {<<>>, <<0>>, <<50>>, <<200>>},
      following : {<<0>>, <<100>>, <<400>>},
      posts : {<<-1>>, <<9>>, <<10>>, <<49>>, <<50>>},
      avg_likes : {<<-3>>, <<1>>, <<3>>, <<30>>},
      avg_comments : {<<0>>, <<1>>} ]

\* analyze(): auth = authenticity_estimate(req.model_dump())
Estimate ==
    /\ call # NoValue /\ call.fn = "authenticity_estimate"
    /\ call.out = <<>>
    /\ call' = [call EXCEPT !.out = <<authenticity_estimate(call.arg)>>]
    /\ UNCHANGED <<profile, metrics, frec, verdict, run, hist, server, db>>

-----------------------------------------------------------------------------
(* is_generic_comment called on one comment text (SpecGeneric)              *)

MaxTextLen == 14     \* a text holds up to MaxTextLen copies of a character

TSunset == <<"w","o","w"," ","a","m","a","z","i","n","g"," ",
             "s","u","n","s","e","t"," ","t","o","d","a","y">>
TLoveThisUpper == <<"L","o","v","e"," ","T","H","I","S">>

\* a text as scraped, and with whitespace around it
Padded(t) == {t, <<" ">> \o t \o <<" ", " ">>}

\* the stock phrases, longer texts, and runs of letters, digits, punctuation,
\* underscores and blanks, alone and after three letters
GenericTextInputs ==
    UNION {Padded(t) : t \in generic_phrases
                            \cup {TNiceUpper, TLoveThisUpper, TSunset, Txt(1), TOk}}
    \cup {Repeat(c, n) : c \in {"a", "!", "_", "7", " "}, n \in 0..MaxTextLen}
    \cup {<<"a", "b", "c">> \o Repeat(c, n) :
                c \in {"!", "_", "7", "d"}, n \in 0..(MaxTextLen - 3)}

\* lines 96-115 applied to the text
ClassifyComment ==
    /\ call # NoValue /\ call.fn = "is_generic_comment"
    /\ call.out = <<>>
    /\ call' = [call EXCEPT !.out = <<is_generic_comment(call.arg)>>]
    /\ UNCHANGED <<profile, metrics, frec, verdict, run, hist, server, db>>

-----------------------------------------------------------------------------
(* The extraction strategies of scrape_post_comments (SpecScrape)           *)

\* the selectors of lines 227-232, in their order
selectors == << "article ul li", "div[role=button] span",
                "ul li div span", "div h3 + div span" >>
TextFallback == Len(selectors) + 1

\* text.replace(sub, ""): the occurrences of sub taken out from left to right
RECURSIVE RemoveAll(_, _)
RemoveAll(text, sub) ==
    IF Len(text) < Len(sub) THEN text
    ELSE IF SubSeq(text, 1, Len(sub)) = sub
    THEN RemoveAll(SubSeq(text, Len(sub) + 1, Len(text)), sub)
    ELSE <<Head(text)>> \o RemoveAll(Tail(text), sub)

TLikedBy == <<"l","i","k","e","d"," ","b","y">>
TViewAll == <<"v","i","e","w"," ","a","l","l">>

\* lines 243-269 for one element: the record it gives, if any.  el.found: the
\* parent and its username link were found and no call on the element raised.
ParseElement(el) ==
    LET username == Strip(el.username)
        text == Strip(el.text)
        rest == IF Contains(text, username) THEN Strip(RemoveAll(text, username))
                ELSE text
    IN  IF ~el.found \/ username = <<>> \/ text = <<>> THEN <<>>
        ELSE IF Contains(Lower(text), TLikedBy) \/ Contains(Lower(text), TViewAll)
        THEN <<>>
        ELSE IF rest = <<>> THEN <<>>
        ELSE <<Comment(username, rest)>>

\* lines 239-269: the elements in order, until max_comments records are held
RECURSIVE CollectElements(_, _, _)
CollectElements(elements, comments, max_comments) ==
    IF elements = <<>> \/ Len(comments) >= max_comments THEN comments
    ELSE CollectElements(Tail(elements), comments \o ParseElement(Head(elements)),
                         max_comments)

\* re.match(r'^[a-zA-Z0-9._]{1,30}$', line) for a line shorter than 30
IsHandleLine(line) ==
    /\ Len(line) \in 1..29
    /\ \A i \in DOMAIN line : IsAlpha(line[i]) \/ IsDigit(line[i]) \/ line[i] \in {".", "_"}

\* lines 282-293: a handle line followed by a line of 4 to 499 characters
RECURSIVE CollectLines(_, _, _, _)
CollectLines(lines, i, comments, max_comments) ==
    IF i > Len(lines) \/ Len(comments) >= max_comments THEN comments
    ELSE LET line == Strip(lines[i])
             next_line == IF i + 1 <= Len(lines) THEN Strip(lines[i + 1]) ELSE <<>>
             hit == /\ i + 1 <= Len(lines)
                    /\ Len(next_line) > 3 /\ Len(next_line) < 500
                    /\ IsHandleLine(line)
         IN  CollectLines(lines, i + 1,
                          IF hit THEN Append(comments, Comment(line, next_line))
                          ELSE comments,
                          max_comments)

MaxElements == 4     \* a selector matches up to MaxElements elements

Element(u, t) == [found |-> TRUE, username |-> u, text |-> t]
NoLinkElement == [found |-> FALSE, username |-> <<>>, text |-> <<>>]

\* the elements selector k may match: records of commenter k, an element
\* without a username link, a text that starts with the username, a
\* "Liked by" line, a repeat in another letter case
ElementStream(k) ==
    << Element(User(k), Txt(1)),
       NoLinkElement,
       Element(User(k), User(k) \o <<" ">> \o Txt(2)),
       Element(User(k), <<"L","i","k","e","d"," ","b","y"," ","x">>),
       Element(User(k), <<"T","e","x","t","a">>),
       Element(User(k), Txt(3)) >>

Found(elements) == [raises |-> FALSE, elements |-> elements]
QueryRaises == [raises |-> TRUE, elements |-> <<>>]

\* what query_selector_all gives for selector k: it raises, or it matches a
\* list of elements
SelectorOutcomes(k) ==
    {QueryRaises}
    \cup {Found(FirstN(ElementStream(k), n)) : n \in {0, 2, 3, MaxElements}}
    \cup {Found(Repeat(NoLinkElement, n)) : n \in {3, MaxElements}}
FewSelectorOutcomes(k) ==
    {QueryRaises, Found(<<>>), Found(FirstN(ElementStream(k), 3))}

TGreatShot == <<"g","r","e","a","t"," ","s","h","o","t">>

\* what page.inner_text("body") gives: it raises, or the lines of the page
BodyOutcomes ==
    { [raises |-> TRUE, lines |-> <<>>],
      [raises |-> FALSE, lines |-> <<TOk, <<"@", "x">>, TGreatShot>>],
      [raises |-> FALSE,
       lines |-> <<<<" ">> \o User(5), TGreatShot, User(6), TNice, User(5), TGreatShot>>] }

PageInputs ==
    { [selectors |-> <<s1, s2, s3, s4>>, body |-> b] :
        s1 \in SelectorOutcomes(1), s2 \in SelectorOutcomes(2),
        s3 \in FewSelectorOutcomes(3), s4 \in FewSelectorOutcomes(4),
        b \in BodyOutcomes }

\* the call at line 212: no comment held, no strategy run
NewScrape(page, max_comments) ==
    [ fn |-> "scrape_post_comments",
      arg |-> [page |-> page, max_comments |-> max_comments],
      pc |-> "selectors", ran |-> <<>>, comments |-> <<>>, out |-> <<>> ]

\* a pass of the selector loop that goes on to the next selector all the same
TrySelectorNoBreak ==
    /\ call # NoValue /\ call.fn = "scrape_post_comments"
    /\ call.pc = "selectors"
    /\ LET k == Len(call.ran) + 1
           found == call.arg.page.selectors[k]
           comments == IF found.raises \/ Len(found.elements) <= 2
                       THEN call.comments
                       ELSE CollectElements(found.elements, call.comments,
                                            call.arg.max_comments)
       IN  call' = [call EXCEPT
                      !.ran = Append(@, k),
                      !.comments = comments,
                      !.pc = IF k < Len(selectors) THEN "selectors"
                             ELSE IF comments # <<>> THEN "dedup"
                             ELSE "fallback"]
    /\ UNCHANGED <<profile, metrics, frec, verdict, run, hist, server, db>>

\* one pass of "for selector in selectors" (lines 234-274): an exception of
\* the query ends the pass; the loop breaks once comments are held
TrySelector ==
    /\ call # NoValue /\ call.fn = "scrape_post_comments"
    /\ call.pc = "selectors"
    /\ LET k == Len(call.ran) + 1
           found == call.arg.page.selectors[k]
           comments == IF found.raises \/ Len(found.elements) <= 2
                       THEN call.comments
                       ELSE CollectElements(found.elements, call.comments,
                                            call.arg.max_comments)
       IN  call' = [call EXCEPT
                      !.ran = Append(@, k),
                      !.comments = comments,
                      !.pc = IF comments # <<>> THEN "dedup"
                             ELSE IF k = Len(selectors) THEN "fallback"
                             ELSE "selectors"]
    /\ UNCHANGED <<profile, metrics, frec, verdict, run, hist, server, db>>

\* lines 277-295: the fallback over the lines of the page text, run when no
\* comment is held after the selectors
TryTextFallback ==
    /\ call # NoValue /\ call.fn = "scrape_post_comments"
    /\ call.pc = "fallback"
    /\ LET body == call.arg.page.body
       IN  call' = [call EXCEPT
                      !.ran = Append(@, TextFallback),
                      !.comments = IF body.raises THEN @
                                   ELSE CollectLines(body.lines, 1, @,
                                                     call.arg.max_comments),
                      !.pc = "dedup"]
    /\ UNCHANGED <<profile, metrics, frec, verdict, run, hist, server, db>>

\* lines 297-307: the comments held are de-duplicated and returned
ReturnComments ==
    /\ call # NoValue /\ call.fn = "scrape_post_comments"
    /\ call.pc = "dedup"
    /\ call' = [call EXCEPT !.out = <<DedupComments(call.comments, {})>>,
                            !.pc = "done"]
    /\ UNCHANGED <<profile, metrics, frec, verdict, run, hist, server, db>>

-----------------------------------------------------------------------------
(* Sign-up: create_user on the users table (auth_local.py, db.py)           *)
(*                                                                          *)
(* /signup is a plain def, so its calls run on threads of the server's pool *)
(* and interleave at their database statements.  Each call has a connection *)
(* of its own: it sees the committed rows, and its INSERT opens a write     *)
(* transaction that holds the database's one write lock until the commit.   *)

MaxSignups == 2      \* create_user calls in flight at once

EmailAUpper == <<" ", "A", "@", "x", ".", "i", "o", " ">>
EmailA == <<"a", "@", "x", ".", "i", "o">>
EmailB == <<"b", "@", "x", ".", "i", "o">>
EmailInputs == {EmailAUpper, EmailA, EmailB}
PasswordInputs == {Repeat("p", 5), Repeat("p", 6)}

\* a row of users: the email column, and the call that inserted it (0: a row
\* that was there before)
UserRow(email, by) == [email |-> email, by |-> by]

\* init_db (db.py:12-26): email TEXT UNIQUE NOT NULL
EmailTaken(users, email) == \E r \in DOMAIN users : users[r].email = email

\* a /signup request: create_user(req.email, req.password) about to run
NewSignup(email, password) ==
    [ op |-> "signup", email |-> email, password |-> password,
      pc |-> "start", outcome |-> "running", error |-> "none" ]

SignupAt(i, pc) ==
    server[i].op = "signup" /\ server[i].outcome = "running" /\ server[i].pc = pc
SignupRaised(req, error) == [req EXCEPT !.outcome = "raised", !.error = error]

\* auth_local.py:14-16: the email is trimmed and lowercased, a password
\* shorter than 6 is refused
ValidateSignup(i) ==
    /\ db # NoValue /\ i \in DOMAIN server
    /\ SignupAt(i, "start")
    /\ LET req == [server[i] EXCEPT !.email = Lower(Strip(@))]
       IN  server' = [server EXCEPT ![i] =
                        IF Len(req.password) < 6
                        THEN SignupRaised(req, "PasswordTooShort")
                        ELSE [req EXCEPT !.pc = "select"]]
    /\ UNCHANGED db
    /\ UNCHANGED <<profile, metrics, frec, verdict, run, hist, call>>

\* auth_local.py:18-24: the existence check on the committed rows
SelectExisting(i) ==
    /\ db # NoValue /\ i \in DOMAIN server
    /\ SignupAt(i, "select")
    /\ server' = [server EXCEPT ![i] =
                    IF EmailTaken(db.users, @.email)
                    THEN SignupRaised(@, "EmailExists")
                    ELSE [@ EXCEPT !.pc = "insert"]]
    /\ UNCHANGED db
    /\ UNCHANGED <<profile, metrics, frec, verdict, run, hist, call>>

\* an INSERT into a table whose email column is not UNIQUE
InsertUserUnconstrained(i) ==
    /\ db # NoValue /\ i \in DOMAIN server
    /\ SignupAt(i, "insert")
    /\ LET req == server[i]
       IN  IF db.writer # 0
           THEN /\ server' = [server EXCEPT ![i] = SignupRaised(req, "DatabaseLocked")]
                /\ UNCHANGED db
           ELSE IF FALSE
           THEN /\ server' = [server EXCEPT ![i] = SignupRaised(req, "IntegrityError")]
                /\ UNCHANGED db
           ELSE /\ server' = [server EXCEPT ![i].pc = "commit"]
                /\ db' = [db EXCEPT !.writer = i]
    /\ UNCHANGED <<profile, metrics, frec, verdict, run, hist, call>>

\* auth_local.py:26-29: the INSERT.  While another connection holds the write
\* lock the statement waits, and fails with "database is locked" if the busy
\* timeout runs out; with the lock, the UNIQUE column refuses an email that
\* a committed row holds.
InsertUser(i) ==
    /\ db # NoValue /\ i \in DOMAIN server
    /\ SignupAt(i, "insert")
    /\ LET req == server[i]
       IN  IF db.writer # 0
           THEN /\ server' = [server EXCEPT ![i] = SignupRaised(req, "DatabaseLocked")]
                /\ UNCHANGED db
           ELSE IF EmailTaken(db.users, req.email)
           THEN /\ server' = [server EXCEPT ![i] = SignupRaised(req, "IntegrityError")]
                /\ UNCHANGED db
           ELSE /\ server' = [server EXCEPT ![i].pc = "commit"]
                /\ db' = [db EXCEPT !.writer = i]
    /\ UNCHANGED <<profile, metrics, frec, verdict, run, hist, call>>

\* auth_local.py:30: conn.commit() writes the row and frees the write lock
CommitUser(i) ==
    /\ db # NoValue /\ i \in DOMAIN server
    /\ SignupAt(i, "commit")
    /\ db' = [db EXCEPT !.users = Append(@, UserRow(server[i].email, i)),
                        !.writer = 0]
    /\ server' = [server EXCEPT ![i].pc = "close"]
    /\ UNCHANGED <<profile, metrics, frec, verdict, run, hist, call>>

\* auth_local.py:31 and app.py:233: conn.close(), signup returns ok
CloseSignup(i) ==
    /\ db # NoValue /\ i \in DOMAIN server
    /\ SignupAt(i, "close")
    /\ server' = [server EXCEPT ![i].outcome = "returned"]
    /\ UNCHANGED db
    /\ UNCHANGED <<profile, metrics, frec, verdict, run, hist, call>>

vars == <<profile, metrics, frec, verdict, run, hist, server, call, db>>

MetricsIdle == profile = NoValue /\ metrics = NoValue
ClassifierIdle == frec = NoValue /\ verdict = NoValue
AuditIdle == run = IdleRun /\ hist = NewHist
ServerIdle == server = NoValue
CallIdle == call = NoValue
DbIdle == db = NoValue

MetricsInit ==
    /\ profile \in {<<p>> : p \in ProfileInputs}
    /\ metrics = NoValue
    /\ ClassifierIdle
    /\ AuditIdle
    /\ ServerIdle
    /\ CallIdle
    /\ DbIdle

ComputeMetrics ==
    /\ profile # NoValue
    /\ metrics = NoValue
    /\ metrics' = <<compute_profile_metrics(profile[1])>>
    /\ UNCHANGED <<profile, frec, verdict, run, hist, server, call, db>>

MetricsNext == ComputeMetrics

SpecMetrics == MetricsInit /\ [][MetricsNext]_vars

ClassifierInit ==
    /\ frec \in {<<f>> : f \in FollowerRecordInputs}
    /\ verdict = NoValue
    /\ MetricsIdle
    /\ AuditIdle
    /\ ServerIdle
    /\ CallIdle
    /\ DbIdle

Classify ==
    /\ frec # NoValue
    /\ verdict = NoValue
    /\ verdict' = classify_likely_fake(frec[1])
    /\ UNCHANGED <<profile, metrics, frec, run, hist, server, call, db>>

ClassifierNext == Classify

SpecClassifier == ClassifierInit /\ [][ClassifierNext]_vars


AuditInit ==
    /\ run \in RunInputs \cup HttpRunInputs
    /\ hist = NewHist
    /\ MetricsIdle
    /\ ClassifierIdle
    /\ ServerIdle
    /\ CallIdle
    /\ DbIdle

AuditNext ==
    \/ Endpoint
    \/ Start \/ Launch \/ GotoHome \/ CheckHome
    \/ FetchProfile \/ PostWithoutComments \/ PostGoto \/ CheckPost \/ PostScrape
    \/ ProfileClose
    \/ GotoProfile \/ CheckProfile \/ FindFollowersLink \/ OpenFollowersDialog
    \/ HarvestIteration \/ ReturnUsernames \/ ResolveFollower \/ FollowerClose

SpecAudit == AuditInit /\ [][AuditNext]_vars

\* The passes of the harvest loop are consecutive statements of one
\* coroutine: each await in a pass returns or raises (the wait is 850 ms), so
\* an enabled pass is eventually taken.
SpecAuditFair == SpecAudit /\ WF_vars(HarvestIteration)

ServerInit ==
    /\ server = <<>>
    /\ MetricsIdle
    /\ ClassifierIdle
    /\ AuditIdle
    /\ CallIdle
    /\ DbIdle

ServerNext ==
    \/ Receive
    \/ \E i \in DOMAIN server : EnterOperation(i)
    \/ \E i \in DOMAIN server : OpenContext(i)
    \/ \E i \in DOMAIN server : FinishAudit(i)

SpecServer == ServerInit /\ [][ServerNext]_vars

DedupInit ==
    /\ call \in {NewCall("dedup", comments) : comments \in CommentListInputs}
    /\ MetricsIdle
    /\ ClassifierIdle
    /\ AuditIdle
    /\ ServerIdle
    /\ DbIdle

DedupNext == Dedupe \/ DedupeAgain

SpecDedup == DedupInit /\ [][DedupNext]_vars

EstimateInit ==
    /\ call \in {NewCall("authenticity_estimate", data) : data \in EstimateInputs}
    /\ MetricsIdle
    /\ ClassifierIdle
    /\ AuditIdle
    /\ ServerIdle
    /\ DbIdle

EstimateNext == Estimate

SpecEstimate == EstimateInit /\ [][EstimateNext]_vars

GenericInit ==
    /\ call \in {NewCall("is_generic_comment", text) : text \in GenericTextInputs}
    /\ MetricsIdle
    /\ ClassifierIdle
    /\ AuditIdle
    /\ ServerIdle
    /\ DbIdle

GenericNext == ClassifyComment

SpecGeneric == GenericInit /\ [][GenericNext]_vars

ScrapeInit ==
    /\ call \in {NewScrape(page, mc) : page \in PageInputs, mc \in {1, 30}}
    /\ MetricsIdle
    /\ ClassifierIdle
    /\ AuditIdle
    /\ ServerIdle
    /\ DbIdle

ScrapeNext == TrySelector \/ TryTextFallback \/ ReturnComments

SpecScrape == ScrapeInit /\ [][ScrapeNext]_vars

SignupInit ==
    /\ server \in [1..MaxSignups -> {NewSignup(e, pw) : e \in EmailInputs,
                                                        pw \in PasswordInputs}]
    /\ db \in {[users |-> rows, writer |-> 0] : rows \in {<<>>, <<UserRow(EmailB, 0)>>}}
    /\ MetricsIdle
    /\ ClassifierIdle
    /\ AuditIdle
    /\ CallIdle

SignupNext ==
    \/ \E i \in 1..MaxSignups : ValidateSignup(i)
    \/ \E i \in 1..MaxSignups : SelectExisting(i)
    \/ \E i \in 1..MaxSignups : InsertUser(i)
    \/ \E i \in 1..MaxSignups : CommitUser(i)
    \/ \E i \in 1..MaxSignups : CloseSignup(i)

SpecSignup == SignupInit /\ [][SignupNext]_vars




-----------------------------------------------------------------------------
(* Claims about the Metrics Engine (SpecMetrics)                            *)

MetricsDone == metrics # NoValue
Report == metrics[1]
Given == profile[1]

\* The profile of the risk-score scenario: 5000 followers, 12 posts whose
\* likes average 10 with like_cv = 0.05 (cv squared = 1/400), no post with a
\* comment count above 0, 60 % generic and 30 % duplicate scraped comments,
\* and no points for repeat commenters.
RiskScenario ==
    /\ MetricsDone
    /\ Given.followers = 5000
    /\ Len(Given.posts) = 12
    /\ Report.avg_likes = 1000
    /\ 400 * Report.like_cv[1] = Report.like_cv[2]
    /\ \A i \in DOMAIN Given.posts : Given.posts[i].comments_count = 0
    /\ Report.avg_comments = 0
    /\ Report.generic_comments_pct = 6000
    /\ Report.duplicate_comments_pct = 3000
    /\ Report.repeat_commenters_pct <= 1500
    /\ RiskRepeat(CommentersOf(FlattenComments(Given.posts))) = 0

\* C1 as stated: the scenario profile scores exactly 70
C1_ScenarioScores70 == RiskScenario => Report.risk_score = 700

\* C1 amended: the scenario profile scores exactly 75: engagement +25,
\* generic +20, duplicate +15, like-consistency +10 and comment-consistency +5
\* (comment_cv is 0 because the mean comment count is 0, and 12 >= 10 posts
\* were sampled), nothing for repeat commenters
C1_ScenarioScores75 ==
    RiskScenario =>
        /\ Report.risk_score = 750
        /\ RiskEngagement(Given.followers, ErAvg(Given.followers, Given.posts)) = 25
        /\ RiskLikeConsistency(LikesOf(Given.posts)) = 10
        /\ Report.comment_cv[1] = 0
        /\ Report.risk_score
             = 10 * (25 + 20 + 15 + 10 + 5)

C1_ScenarioReached == RiskScenario /\ Report.risk_score = 750

\* C2: every percentage field of the MetricsReport lies in [0,100]
C2_PercentagesWithin100 ==
    MetricsDone =>
        /\ Report.er_avg \in 0..100000
        /\ Report.er_median \in 0..100000
        /\ Report.generic_comments_pct \in 0..10000
        /\ Report.duplicate_comments_pct \in 0..10000
        /\ Report.repeat_commenters_pct \in 0..10000

AllGiven == FlattenComments(Given.posts)

\* the share part / whole, in percent, is above thr
ShareOver(part, whole, thr) == whole > 0 /\ 100 * part > thr * whole

\* the rational a is below b
Below(a, b) == a[1] * b[2] < b[1] * a[2]

\* the tier threshold on er_avg for the follower count
TierThreshold(followers) ==
    IF followers < 10000 THEN <<1, 100>>
    ELSE IF followers < 100000 THEN <<7, 1000>>
    ELSE <<3, 1000>>

\* the components of the risk score as the rule states them, on the exact
\* values of the shares and of the coefficients of variation
StatedEngagement ==
    IF Below(ErAvg(Given.followers, Given.posts), TierThreshold(Given.followers))
    THEN 25 ELSE 0
StatedGeneric ==
    LET g == Cardinality({i \in DOMAIN AllGiven : is_generic_comment(AllGiven[i].text)})
    IN  IF ShareOver(g, Len(AllGiven), 40) THEN 20
        ELSE IF ShareOver(g, Len(AllGiven), 25) THEN 12 ELSE 0
StatedDuplicate ==
    LET texts == TextsOf(AllGiven)
        dup == Len(texts) - Cardinality(Range(texts))
    IN  IF ShareOver(dup, Len(texts), 20) THEN 15
        ELSE IF ShareOver(dup, Len(texts), 10) THEN 8 ELSE 0
StatedRepeat ==
    LET commenters == CommentersOf(AllGiven)
        rep == Len(commenters) - Cardinality(Range(commenters))
    IN  IF ShareOver(rep, Len(commenters), 30) THEN 10
        ELSE IF ShareOver(rep, Len(commenters), 15) THEN 5 ELSE 0
StatedLikeConsistency ==
    IF Len(Given.posts) >= 10 /\ Below(Report.like_cv, <<9, 400>>) THEN 10 ELSE 0
StatedCommentConsistency ==
    IF Len(Given.posts) >= 10 /\ Below(Report.comment_cv, <<1, 25>>) THEN 5 ELSE 0

\* C23: for every profile the risk score is the sum of exactly these
\* components: +25 if er_avg is below the follower tier's threshold (0.01
\* under 10k followers, 0.007 under 100k, 0.003 from 100k); +20 if
\* generic_comments_pct > 40 else +12 if > 25; +15 if duplicate_comments_pct
\* > 20 else +8 if > 10; +10 if repeat_commenters_pct > 30 else +5 if > 15;
\* +10 if like_cv < 0.15 and +5 if comment_cv < 0.20, both only with at least
\* 10 posts sampled; a CV is 0 when the mean is 0.
C23_RiskIsSumOfComponents ==
    MetricsDone =>
        /\ Report.risk_score =
              10 * (StatedEngagement + StatedGeneric + StatedDuplicate + StatedRepeat
                    + StatedLikeConsistency + StatedCommentConsistency)
        /\ SumSeq(LikesOf(Given.posts)) = 0 => Report.like_cv[1] = 0
        /\ SumSeq(CommentCountsOf(Given.posts)) = 0 => Report.comment_cv[1] = 0

\* the sum of the risk components before the clamp of line 189
UnclampedRisk ==
    LET all == FlattenComments(Given.posts)
    IN  RiskEngagement(Given.followers, ErAvg(Given.followers, Given.posts))
        + RiskGeneric(Cardinality({i \in DOMAIN all : is_generic_comment(all[i].text)}),
                      Len(all))
        + RiskDuplicate(TextsOf(all))
        + RiskRepeat(CommentersOf(all))
        + RiskLikeConsistency(LikesOf(Given.posts))
        + RiskCommentConsistency(CommentCountsOf(Given.posts))

\* C30: for every profile the un-clamped sum of the risk components is at
\* least 0 and at most 85 (25+20+15+10+10+5), so the clamp to [0,100] never
\* changes the value and risk_score is always in [0,85].
C30_RiskWithin85 ==
    MetricsDone =>
        /\ UnclampedRisk \in 0..(25 + 20 + 15 + 10 + 10 + 5)
        /\ Clamp(0, UnclampedRisk, 100) = UnclampedRisk
        /\ Report.risk_score = 10 * UnclampedRisk
        /\ Report.risk_score \in 0..850

\* a profile that collects every component: the score is 85
C30_EveryComponentScored ==
    /\ MetricsDone
    /\ UnclampedRisk = 85
    /\ Report.risk_score = 850

-----------------------------------------------------------------------------
(* Claims about the audit runs (SpecAudit)                                  *)

RunReturned(op) == run.op = op /\ run.outcome = "returned"
RunRaised(op) == run.op = op /\ run.outcome = "raised"
Result == run.result[1]

\* C3: whatever sample_size the caller passes (10000, 0 and negative values
\* included) and whatever the followers modal shows, follower_audit reports a
\* sample_size_requested within [1,500] (10000 becomes 500), and a
\* sample_size_collected that is at most sample_size_requested.
C3_SampleSizeBounded ==
    run.op = "follower_audit" =>
        /\ Len(run.follower_usernames) <= run.sample_size
        /\ Len(run.followers_data) <= Len(run.follower_usernames)
        /\ RunReturned("follower_audit") =>
              /\ Result.sample_size_requested \in 1..500
              /\ run.args.sample_size = 10000 => Result.sample_size_requested = 500
              /\ run.args.sample_size \in 1..500 =>
                    Result.sample_size_requested = run.args.sample_size
              /\ Result.sample_size_collected <= Result.sample_size_requested

\* an out-of-range request is clamped to 1 and the modal gave more than that
C3_HarvestTruncated ==
    /\ RunReturned("follower_audit")
    /\ run.args.sample_size < 1
    /\ Result.sample_size_requested = 1
    /\ Len(run.usernames) > 1
    /\ Result.sample_size_collected = 1

IsLoginPage(url) == url \in {AccountsLoginUrl, LoginUrl}

\* C4: in every audit run each page navigation is followed by the logged-in
\* check before anything is extracted from the page; a navigation that ends
\* on a login page aborts the run with NotLoggedIn: no later post or follower
\* is processed and no result is returned.
C4_LoginCheckedAfterNavigation ==
    /\ hist.extractions = 0
    /\ (run.outcome = "running"
          /\ run.pc \in {"scrape", "find_link", "click_link", "harvest"})
       => run.checked /\ ~IsLoginPage(run.url)
    /\ hist.login_landings > 0 =>
          /\ IsLoginPage(run.url)
          /\ \/ run.outcome = "running"
                  /\ run.pc \in {"check_home", "check_post", "check_profile"}
             \/ run.outcome = "raised" /\ run.error = "NotLoggedIn"
          /\ ItemsProcessed(run) = hist.items_at_login
          /\ run.result = <<>>

\* a post page redirected to the login page after a post had been collected
C4_AbortedAtLaterPost ==
    /\ RunRaised("profile_audit")
    /\ run.error = "NotLoggedIn"
    /\ run.url = LoginUrl
    /\ Len(run.posts) = 1
    /\ Len(run.posts_data) = 3

Terminal == run.outcome \in {"returned", "raised"}

\* C5: in every terminal state of an audit run, completed or aborted by a
\* fatal error, Context.close() has been called on the context the run
\* opened, and the context was opened exactly once.
C5_ContextClosedOnEveryExit ==
    (Terminal /\ run.opened > 0) => (run.context = "closed" /\ run.opened = 1)

Zeroed(f) ==
    /\ f.followers = 0 /\ f.following = 0 /\ f.posts = 0
    /\ f.is_private = FALSE /\ f.has_bio = FALSE

\* C6: in follower_audit a failed lookup of a harvested handle does not abort
\* the run: the handle is recorded with followers, following and posts 0,
\* is_private and has_bio false, is classified all the same, and is counted:
\* sample_size_collected is the number of harvested handles.
C6_FailedLookupRecorded ==
    /\ \A k \in hist.failed :
          /\ k <= Len(run.followers_data)
          /\ LET f == run.followers_data[k]
             IN  /\ f.username = run.follower_usernames[k]
                 /\ Zeroed(f)
                 /\ <<f.likely_fake, f.reasons>> = classify_likely_fake(
                        [ username |-> f.username, followers |-> 0, following |-> 0,
                          posts |-> 0, is_private |-> FALSE, has_bio |-> FALSE ])
    /\ (run.op = "follower_audit" /\ run.pc = "resolve") => run.outcome # "raised"
    /\ RunReturned("follower_audit") =>
          Result.sample_size_collected = Len(run.follower_usernames)

\* the second of three lookups failed, for a handle the classifier flags
C6_MiddleLookupFailed ==
    /\ RunReturned("follower_audit")
    /\ hist.failed = {2}
    /\ Result.sample_size_collected = 3
    /\ run.followers_data[2].username = HandleBot
    /\ run.followers_data[2].likely_fake

\* C7: in profile_audit a post whose navigation timed out is in the snapshot
\* returned, at its own position, with no comments and with the likes and
\* comments_count of the structured data; the posts after it are processed.
C7_TimedOutPostKept ==
    /\ \A k \in hist.timed_out :
          /\ k <= Len(run.posts)
          /\ run.posts[k].shortcode = run.posts_data[k].shortcode
          /\ run.posts[k].likes = run.posts_data[k].likes
          /\ run.posts[k].comments_count = run.posts_data[k].comments_count
          /\ run.posts[k].comments = <<>>
    /\ run.error # "PlaywrightTimeoutError" \/ run.pc \notin {"post_loop", "check_post", "scrape"}
    /\ RunReturned("profile_audit") =>
          /\ Result.posts = run.posts
          /\ Len(run.posts) = Len(run.posts_data)

\* the first of three posts timed out, the second was scraped
C7_FirstPostTimedOut ==
    /\ RunReturned("profile_audit")
    /\ hist.timed_out = {1}
    /\ Len(Result.posts) = 3
    /\ Result.posts[1].likes = 5
    /\ Result.posts[1].comments_count = 1
    /\ Result.posts[2].comments # <<>>

\* C8: in profile_audit no failure while one post's comments are collected
\* aborts the run; only NotLoggedIn does.
C8_OnlyNotLoggedInAbortsPosts ==
    (RunRaised("profile_audit") /\ run.pc \in {"post_loop", "check_post", "scrape"})
        => run.error = "NotLoggedIn"

\* the engine has been called and extract_username has returned or raised
Entered == run.pc \notin {"idle", "endpoint"} /\ ~Running("start")
Accepted == Entered /\ ~(run.outcome = "raised" /\ run.pc = "start")

\* the non-empty segments of the path of the reference
Segments == SelectSeq(run.args.profile_url.path, LAMBDA seg : seg # <<>>)

\* the run failed in extract_username, before anything was opened
RejectedAtOnce ==
    /\ run.outcome = "raised" /\ run.error = "ValueError" /\ run.pc = "start"
    /\ run.opened = 0 /\ run.playwright = "none" /\ run.context = "none"
    /\ run.url = HomeUrl /\ run.counts = <<0, 0, 0>> /\ run.result = <<>>

RejectedFor(reserved) ==
    (Entered /\ (Segments = <<>> \/ Lower(Strip(Segments[1])) \in reserved))
        => RejectedAtOnce

\* C11 (as stated): a reference with an empty path, or whose handle is
\* "post", "reel", "stories", "explore" or "accounts" in any letter case,
\* fails at once with InvalidProfileReference (the ValueError of
\* extract_username): no context is opened, no navigation or request made.
C11_PostHandleRejected ==
    RejectedFor({ <<"p", "o", "s", "t">>, <<"r", "e", "e", "l">>,
                  <<"s", "t", "o", "r", "i", "e", "s">>,
                  <<"e", "x", "p", "l", "o", "r", "e">>,
                  <<"a", "c", "c", "o", "u", "n", "t", "s">> })

\* C11 (amended): the reserved segments are "p", "reel", "stories", "explore"
\* and "accounts" in any letter case; a reference with an empty path or such
\* a first segment fails at once, nothing opened, no navigation or request.
C11_ReservedHandleRejected ==
    RejectedFor({ <<"p">>, <<"r", "e", "e", "l">>,
                  <<"s", "t", "o", "r", "i", "e", "s">>,
                  <<"e", "x", "p", "l", "o", "r", "e">>,
                  <<"a", "c", "c", "o", "u", "n", "t", "s">> })

\* follower_audit was given ".../Reel/x" and raised before opening anything
C11_ReelRejected ==
    /\ run.op = "follower_audit"
    /\ Segments # <<>> /\ Segments[1] = <<"R", "e", "e", "l">>
    /\ RejectedAtOnce

UrlForm(h) == [netloc |-> TRUE, path |-> << <<>>, h, <<>> >>]
AtForm(h) == [netloc |-> FALSE, path |-> << <<"@">> \o h >>]

\* C12: the same bare handle h is derived from the URL with a scheme and from
\* the string "@h"; the handle used for the lookups and reported as username
\* never starts with "@".
C12_SameBareHandle ==
    /\ \A h \in {TargetHandle} :
          (Accepted /\ run.args.profile_url \in {UrlForm(h), AtForm(h)})
              => run.username = h
    /\ Accepted => run.username[1] # "@"
    /\ (run.outcome = "returned" /\ Accepted) => Result.username[1] # "@"

\* C13: fetch_counts fails with UpstreamHTTPError when the endpoint answers
\* 200 with a body that lacks data.user or one of the three counts; it never
\* returns counts for such a response.
C13_IncompleteResponseFails ==
    (run.op = "profile_basic" /\ hist.missing_fields)
        => (run.outcome = "raised" /\ run.error = "UpstreamHTTPError")

\* C14: in every snapshot profile_audit returns, no two PostRecords have the
\* same shortcode, whatever edge list the endpoint returned.
C14_ShortcodesUnique ==
    RunReturned("profile_audit") =>
        \A i, j \in DOMAIN Result.posts :
            i # j => Result.posts[i].shortcode # Result.posts[j].shortcode

\* the integer comments_per_post the caller supplied, if any
SuppliedCap ==
    IF run.request = <<>> THEN <<run.args.comments_per_post>>
    ELSE run.request[1].comments_per_post

\* C15: for every integer comments_per_post a caller supplies, the cap applied
\* to each post's comment sample is min(max(input, 0), 80), for a direct call
\* of profile_audit and for a request through /ig/profile-audit alike.
C15_CapIsClampedInput ==
    (run.op = "profile_audit" /\ Accepted /\ SuppliedCap # <<>>) =>
        /\ run.comments_per_post =
              (IF SuppliedCap[1] < 0 THEN 0
               ELSE IF SuppliedCap[1] > 80 THEN 80 ELSE SuppliedCap[1])
        /\ \A i \in DOMAIN run.posts :
              Len(run.posts[i].comments) <= run.comments_per_post

FlaggedCount == Cardinality({i \in DOMAIN run.followers_data :
                                run.followers_data[i].likely_fake})

\* C20: for every follower audit, the empty sample and the sample whose
\* lookups all failed included, likely_bot_like_pct lies in [0,100] and is
\* 100 times the share of the collected records with likely_fake = true, to
\* the two decimals reported (0 for an empty sample).
C20_BotLikePctIsShare ==
    RunReturned("follower_audit") =>
        LET n == Result.sample_size_collected
            pct == Result.likely_bot_like_pct       \* in hundredths
            exact == 10000 * FlaggedCount           \* n * 100 * share, in hundredths
        IN  /\ n = Len(run.followers_data)
            /\ pct \in 0..10000
            /\ n = 0 => pct = 0
            /\ n > 0 => /\ 2 * (pct * n - exact) <= n
                        /\ 2 * (exact - pct * n) <= n

\* every lookup of a sample of three failed; the one bot-like handle is flagged
C20_AllFailedOneFlagged ==
    /\ RunReturned("follower_audit")
    /\ hist.failed = {1, 2, 3}
    /\ FlaggedCount = 1
    /\ Result.likely_bot_like_pct = 3333

\* the collected followers, among those of the set among, whose reasons hold r
Holders(among, r) ==
    {i \in among : \E j \in DOMAIN run.followers_data[i].reasons :
                        run.followers_data[i].reasons[j] = r}

\* the reason mapping tallies the reasons of the followers of the set among:
\* one entry per reason of theirs, its count the number of them holding it,
\* the entries in order of count, descending
TalliesOver(among) ==
    LET rc == Result.reason_counts
    IN  /\ \A i \in among : \A j \in DOMAIN run.followers_data[i].reasons :
              \E k \in DOMAIN rc : rc[k][1] = run.followers_data[i].reasons[j]
        /\ \A k \in DOMAIN rc :
              /\ rc[k][2] >= 1
              /\ rc[k][2] = Cardinality(Holders(among, rc[k][1]))
        /\ \A k, l \in DOMAIN rc : rc[k][1] = rc[l][1] => k = l
        /\ \A k \in DOMAIN rc : k < Len(rc) => rc[k][2] >= rc[k + 1][2]

\* C21 as stated: the reason mapping of the AuditResult gives, for each reason
\* string, the number of collected followers whose reasons contain it, and its
\* entries are ordered by count, descending.
C21_CountsOverCollected ==
    RunReturned("follower_audit") => TalliesOver(DOMAIN run.followers_data)

\* C21, amended: the reason mapping of the AuditResult gives, for each reason
\* string of a follower flagged likely_fake, the number of flagged followers
\* whose reasons contain it (the reasons of unflagged followers are not
\* counted), and its entries are ordered by count, descending.
C21_CountsOverFlagged ==
    RunReturned("follower_audit") =>
        TalliesOver({i \in DOMAIN run.followers_data :
                        run.followers_data[i].likely_fake})

\* an unflagged follower has reasons, and the mapping holds two counts
C21_UnflaggedWithReasons ==
    /\ RunReturned("follower_audit")
    /\ \E i \in DOMAIN run.followers_data :
          /\ ~run.followers_data[i].likely_fake
          /\ run.followers_data[i].reasons # <<>>
    /\ \E k, l \in DOMAIN Result.reason_counts :
          Result.reason_counts[k][2] > Result.reason_counts[l][2]

\* the harvest-and-scroll loop is at a pass, or has ended with its counts
InHarvestLoop == run.op = "follower_audit" /\ Running("harvest")
HarvestLoopEnded == run.op = "follower_audit" /\ Running("harvested")
QuotaReached == Len(run.usernames) >= run.sample_size

\* at most 90 passes and 90 scrolls; a pass is begun only under the quota; the
\* pass that reaches the quota does not scroll; without the quota the loop
\* ends after pass 90
HarvestLoopBounded ==
    run.op = "follower_audit" =>
        /\ run.iterations \in 0..90
        /\ run.scrolls \in 0..90
        /\ run.pc = "harvest" =>
              /\ run.iterations < 90
              /\ run.scrolls = run.iterations
              /\ (run.iterations > 0 /\ run.outcome = "running") => ~QuotaReached
        /\ HarvestLoopEnded =>
              IF QuotaReached
              THEN run.scrolls = run.iterations - 1
              ELSE run.iterations = 90 /\ run.scrolls = 90

\* C24: the harvest-and-scroll loop of the Follower Sampler always
\* terminates: it makes at most 90 harvest passes and at most 90 scrolls, even
\* when the modal never yields a new anchor and the quota is never reached,
\* and it stops scrolling as soon as the de-duplicated handle count reaches
\* sample_size.
C24_HarvestLoopTerminates ==
    /\ []HarvestLoopBounded
    /\ InHarvestLoop ~> ~InHarvestLoop

\* the modal never yielded an anchor: the loop ended after 90 passes
C24_NinetyPassesNoHandle ==
    /\ HarvestLoopEnded
    /\ run.usernames = <<>>
    /\ run.iterations = 90
    /\ run.scrolls = 90

\* no follower handle has been harvested, resolved or classified, and no
\* AuditResult is held
NothingSampled ==
    /\ run.usernames = <<>>
    /\ run.follower_usernames = <<>>
    /\ run.followers_data = <<>>
    /\ run.result = <<>>

\* C26: in follower_audit, if none of the fallback locators finds the
\* followers link, or the followers dialog does not open, the run fails with
\* a single fatal error (UIElementNotFound): no follower handle is resolved or
\* classified and no AuditResult, not even a partial one, is returned.
C26_NoLinkOrDialogIsFatal ==
    run.op = "follower_audit" =>
        /\ (run.link = "none" \/ run.dialog = "none") =>
              /\ NothingSampled
              /\ run.outcome # "returned"
              /\ run.pc \notin {"harvest", "harvested", "resolve"}
        /\ (run.outcome = "raised" /\ run.pc = "find_link") =>
              run.link = "none" /\ run.error = "UIElementNotFound"
        /\ (run.outcome = "raised" /\ run.pc = "click_link"
               /\ run.error # "ClickBlocked") =>
              run.dialog = "none" /\ run.error = "UIElementNotFound"
        /\ run.error = "UIElementNotFound" =>
              /\ run.outcome = "raised"
              /\ run.link = "none" \/ run.dialog = "none"
              /\ NothingSampled

\* the link was found and clicked, the dialog did not open: the run failed
C26_DialogDidNotOpen ==
    /\ RunRaised("follower_audit")
    /\ run.link = "found" /\ run.dialog = "none"
    /\ run.error = "UIElementNotFound"
    /\ NothingSampled

-----------------------------------------------------------------------------
(* Claims about the HTTP layer (SpecServer)                                 *)

\* C16: the HTTP layer serializes the audit runs on the shared session
\* directory: with two audit requests in flight, at no time do two runs hold a
\* browsing context open on the same session directory.
C16_OneContextPerSessionDir ==
    \A i, j \in DOMAIN server :
        (i # j /\ ContextOpenOn(server[i], SESSION_DIR))
            => ~ContextOpenOn(server[j], SESSION_DIR)

-----------------------------------------------------------------------------
(* Claims about the de-duplication of comments (SpecDedup)                  *)

\* C17: the de-duplication that ends scrape_post_comments, keyed on the
\* lowercased handle and the lowercased text and keeping the first
\* occurrence, is idempotent: applied to its own output it returns that
\* output unchanged.
C17_DedupIdempotent ==
    (call # NoValue /\ call.fn = "dedup" /\ call.again # <<>>)
        => call.again[1] = call.out[1]

\* two of four records were repeats in another letter case, two were kept
C17_RepeatsDropped ==
    /\ call # NoValue /\ call.fn = "dedup" /\ call.again # <<>>
    /\ Len(call.arg) = 4
    /\ call.arg[1] = call.arg[4]
    /\ call.out[1] = << Comment(User(1), TNice), Comment(User(2), TWow) >>

-----------------------------------------------------------------------------
(* Claims about the Bayesian Authenticity Estimator (SpecEstimate)          *)

Estimated == call # NoValue /\ call.fn = "authenticity_estimate" /\ call.out # <<>>
Estimation == call.out[1]

FlooredAt(x, least) == IF x = <<>> \/ x[1] < least THEN least ELSE x[1]

-----------------------------------------------------------------------------
(* Claims about the generic-comment classifier (SpecGeneric)                *)

GenericAnswered == call # NoValue /\ call.fn = "is_generic_comment" /\ call.out # <<>>
SaidGeneric == call.out[1]
Trimmed == Lower(Strip(call.arg))

\* the three tests that come before the last one
ShortStockOrFewLetters(t) ==
    \/ t = <<>> \/ Len(t) <= 2
    \/ t \in generic_phrases
    \/ (CountAlpha(t) <= 3 /\ Len(t) <= 12)

\* C22 as stated: is_generic_comment returns generic exactly when the trimmed,
\* lowercased text is empty or of length <= 2, or is a stock phrase, or has
\* <= 3 alphabetic characters and length <= 12, or consists entirely of
\* non-word characters; "nice" is generic, "wow amazing sunset today" is not.
C22_GenericIffNonWord ==
    GenericAnswered =>
        /\ SaidGeneric <=>
              \/ ShortStockOrFewLetters(Trimmed)
              \/ \A i \in DOMAIN Trimmed : ~IsWordChar(Trimmed[i])
        /\ call.arg = TNice => SaidGeneric
        /\ call.arg = TSunset => ~SaidGeneric

\* C22, amended: is_generic_comment returns generic exactly when the trimmed,
\* lowercased text is empty or of length <= 2, or is a stock phrase, or has
\* <= 3 alphabetic characters and length <= 12, or consists entirely of
\* characters that are non-word characters or underscores; "nice" is generic,
\* "wow amazing sunset today" is not.
C22_GenericIffNonWordOrUnderscore ==
    GenericAnswered =>
        /\ SaidGeneric <=>
              \/ ShortStockOrFewLetters(Trimmed)
              \/ \A i \in DOMAIN Trimmed :
                    Trimmed[i] = "_" \/ ~(IsAlpha(Trimmed[i]) \/ IsDigit(Trimmed[i]))
        /\ call.arg = TNice => SaidGeneric
        /\ call.arg = TSunset => ~SaidGeneric

\* thirteen underscores are found generic
C22_UnderscoresGeneric ==
    /\ GenericAnswered
    /\ call.arg = Repeat("_", 13)
    /\ SaidGeneric

-----------------------------------------------------------------------------
(* Claims about the extraction strategies (SpecScrape)                      *)

Scraping == call # NoValue /\ call.fn = "scrape_post_comments"
Stopped == call.pc \in {"dedup", "done"}

\* the records strategy k gives when it is applied to the page on its own
Yield(k) ==
    IF k = TextFallback
    THEN (IF call.arg.page.body.raises THEN <<>>
          ELSE CollectLines(call.arg.page.body.lines, 1, <<>>, call.arg.max_comments))
    ELSE LET found == call.arg.page.selectors[k]
         IN  IF found.raises \/ Len(found.elements) <= 2 THEN <<>>
             ELSE CollectElements(found.elements, <<>>, call.arg.max_comments)

\* C25: in scrape_post_comments the strategies (the four selectors in their
\* listed order, then the text fallback) are applied in order and extraction
\* stops at the first strategy that yields at least one record: the comments
\* returned all come from that single strategy, no later strategy is run, and
\* the text fallback runs only if every selector yielded nothing.
C25_FirstYieldingStrategyOnly ==
    Scraping =>
        LET ran == call.ran
            n == Len(ran)
        IN  /\ \A i \in DOMAIN ran : ran[i] = i
            /\ n <= TextFallback
            /\ \A i \in DOMAIN ran : i < n => Yield(i) = <<>>
            /\ call.comments # <<>> => (Stopped /\ call.comments = Yield(n))
            /\ Stopped => n > 0 /\ (Yield(n) # <<>> \/ n = TextFallback)
            /\ n = TextFallback => \A k \in DOMAIN selectors : Yield(k) = <<>>
            /\ call.pc = "done" =>
                  /\ call.out[1] = DedupComments(Yield(n), {})
                  /\ \A i \in DOMAIN call.out[1] :
                        \E j \in DOMAIN Yield(n) : call.out[1][i] = Yield(n)[j]

\* the first selector raised, the second yielded: the third selector and the
\* text fallback, which would both yield, were not run
C25_StoppedAtSecondSelector ==
    /\ Scraping /\ call.pc = "done"
    /\ call.arg.page.selectors[1].raises
    /\ call.ran = <<1, 2>>
    /\ call.out[1] # <<>>
    /\ Yield(3) # <<>>
    /\ Yield(TextFallback) # <<>>

-----------------------------------------------------------------------------
(* Claims about the Bot Classifier (SpecClassifier)                         *)

VerdictGiven == verdict # NoValue
Rec == frec[1]
LikelyFake == verdict[1]
Reasons == verdict[2]

Indicator(b) == IF b THEN 1 ELSE 0

\* the five triggers as the claim lists them
TrigZeroPosts == ~Rec.is_private /\ Rec.posts = 0
TrigNoBio == ~Rec.is_private /\ ~Rec.has_bio
TrigFollowRatio == Rec.following >= 1500 /\ Rec.followers <= 50
TrigFollowingMax == Rec.following >= 3000
TrigBotUsername == looks_botty_username(Rec.username)

ClaimedReasons ==
    LET all == << <<TrigZeroPosts, ReasonZeroPosts>>, <<TrigNoBio, ReasonNoBio>>,
                  <<TrigFollowRatio, ReasonFollowRatio>>,
                  <<TrigFollowingMax, ReasonFollowingMax>>,
                  <<TrigBotUsername, ReasonBotUsername>> >>
        hit == SelectSeq(all, LAMBDA e : e[1])
    IN  [i \in DOMAIN hit |-> hit[i][2]]

ClaimedScore ==
    LET sum == 2 * Indicator(TrigZeroPosts) + 1 * Indicator(TrigNoBio)
               + 3 * Indicator(TrigFollowRatio) + 1 * Indicator(TrigFollowingMax)
               + 2 * Indicator(TrigBotUsername)
    IN  IF Rec.is_private THEN (IF sum >= 1 THEN sum - 1 ELSE 0) ELSE sum

ClassifierFixture ==
    [ username |-> <<"a", "b", "c", "1", "2", "3", "4">>, followers |-> 10,
      following |-> 4000, posts |-> 0, has_bio |-> FALSE, is_private |-> FALSE ]

\* C9: the reasons are exactly the triggered reasons in evaluation order and
\* likely_fake = (score >= 4) with weights 2, 1, 3, 1, 2, less 1 (floor 0) for
\* a private account; the fixture yields all five reasons and likely_fake
C9_ReasonsAndScore ==
    VerdictGiven =>
        /\ Reasons = ClaimedReasons
        /\ LikelyFake = (ClaimedScore >= 4)
        /\ (Rec = ClassifierFixture =>
                /\ LikelyFake
                /\ Reasons = <<ReasonZeroPosts, ReasonNoBio, ReasonFollowRatio,
                               ReasonFollowingMax, ReasonBotUsername>>)

C9_FixtureClassified ==
    VerdictGiven /\ Rec = ClassifierFixture /\ LikelyFake /\ Len(Reasons) = 5

DigitCount(u) == Cardinality({i \in DOMAIN u : u[i] \in DigitChars})

\* u is 2 to 6 letters followed by 4 or more digits
LettersThenDigits(u) ==
    LET d == DigitCount(u)
        k == Len(u) - d
    IN  /\ k \in 2..6
        /\ d >= 4
        /\ \A i \in 1..k : u[i] \in LowerCase \cup UpperCase
        /\ \A i \in (k + 1)..Len(u) : u[i] \in DigitChars

BotReasonGiven == \E i \in DOMAIN Reasons : Reasons[i] = ReasonBotUsername

\* C10 as stated: for a non-empty username the bot-like reason triggers
\* exactly when digits >= max(5, 40% of the length as an exact fraction) or
\* the username is 2-6 letters followed by 4 or more digits
C10_ExactFortyPercent ==
    (VerdictGiven /\ Rec.username # <<>>) =>
        (BotReasonGiven <=>
            \/ (DigitCount(Rec.username) >= 5
                /\ 5 * DigitCount(Rec.username) >= 2 * Len(Rec.username))
            \/ LettersThenDigits(Rec.username))

\* C10 amended: the threshold is max(5, 40% of the length rounded down to an
\* integer), i.e. digits >= 5 and digits + 1 > 40% of the length
C10_TruncatedFortyPercent ==
    (VerdictGiven /\ Rec.username # <<>>) =>
        (BotReasonGiven <=>
            \/ (DigitCount(Rec.username) >= 5
                /\ 5 * (DigitCount(Rec.username) + 1) > 2 * Len(Rec.username))
            \/ LettersThenDigits(Rec.username))

\* a 13-character username with 5 digits (40% of 13 is 5.2) is flagged
C10_TruncationDecides ==
    /\ VerdictGiven
    /\ Len(Rec.username) = 13
    /\ DigitCount(Rec.username) = 5
    /\ BotReasonGiven

-----------------------------------------------------------------------------
(* Claims about the followers whose lookup failed (SpecAudit)               *)

\* the handle is bot-like: 5 or more digits that are at least 40 % of the
\* length rounded down, or 2 to 6 letters followed by 4 or more digits
BotLikeHandle(u) ==
    \/ u = <<>>
    \/ (DigitCount(u) >= 5 /\ 5 * (DigitCount(u) + 1) > 2 * Len(u))
    \/ LettersThenDigits(u)

FailedLookups == {k \in hist.failed : k <= Len(run.followers_data)}
FlaggedAt(among) == {i \in among : run.followers_data[i].likely_fake}

\* C27: a follower whose resolution failed (followers, following and posts 0,
\* is_private and has_bio false) is classified likely_fake exactly when its
\* handle is bot-like; with a handle that is not bot-like its score is 3 and
\* it is not flagged, so the failed lookups of such handles never add to
\* likely_bot_like_pct.
C27_FailedLookupFlaggedIffBotLike ==
    run.op = "follower_audit" =>
        /\ \A k \in FailedLookups :
              LET f == run.followers_data[k]
                  score == SumSeq([i \in DOMAIN f.reasons |-> ReasonWeight(f.reasons[i])])
              IN  /\ Zeroed(f)
                  /\ f.likely_fake <=> BotLikeHandle(f.username)
                  /\ ~BotLikeHandle(f.username) =>
                        /\ f.reasons = <<ReasonZeroPosts, ReasonNoBio>>
                        /\ score = 3
                        /\ ~f.likely_fake
                  /\ BotLikeHandle(f.username) => score = 5
        /\ (RunReturned("follower_audit")
              /\ \A k \in FailedLookups : ~BotLikeHandle(run.followers_data[k].username)) =>
              /\ FlaggedAt(DOMAIN run.followers_data)
                    = FlaggedAt(DOMAIN run.followers_data \ FailedLookups)
              /\ FailedLookups = DOMAIN run.followers_data =>
                    Result.likely_bot_like_pct = 0

\* two lookups failed: the handle that is not bot-like is not flagged, the
\* bot-like one is
C27_FailedBotLikeAndNot ==
    /\ RunReturned("follower_audit")
    /\ \E k, l \in FailedLookups :
          /\ ~BotLikeHandle(run.followers_data[k].username)
          /\ ~run.followers_data[k].likely_fake
          /\ Len(run.followers_data[k].reasons) = 2
          /\ BotLikeHandle(run.followers_data[l].username)
          /\ run.followers_data[l].likely_fake

-----------------------------------------------------------------------------
(* Claims about private accounts (SpecClassifier)                           *)

\* C28: for a private account classify_likely_fake never gives the reasons
\* "0 posts (public)" and "no bio (public)", and returns likely_fake = true
\* exactly when following >= 1500, followers <= 50 and the username is
\* bot-like; a private account with followers > 50 is never flagged.
C28_PrivateFlaggedIffRatioAndBotLike ==
    (VerdictGiven /\ Rec.is_private) =>
        /\ \A i \in DOMAIN Reasons :
              Reasons[i] \notin {ReasonZeroPosts, ReasonNoBio}
        /\ LikelyFake <=> /\ Rec.following >= 1500
                          /\ Rec.followers <= 50
                          /\ BotLikeHandle(Rec.username)
        /\ Rec.followers > 50 => ~LikelyFake

\* a private account with no post and no bio, following 1500, 50 followers
\* and a bot-like username is flagged
C28_PrivateFlagged ==
    /\ VerdictGiven /\ Rec.is_private
    /\ Rec.posts = 0 /\ ~Rec.has_bio
    /\ Rec.following = 1500 /\ Rec.followers = 50
    /\ LikelyFake
    /\ Reasons = <<ReasonFollowRatio, ReasonBotUsername>>

-----------------------------------------------------------------------------
(* Claims about sign-up (SpecSignup)                                        *)

SigningUp == db # NoValue
SignupEnded(i) == server[i].outcome \in {"returned", "raised"}

\* the calls that got past the existence check with the email of call i
RacersWith(i) ==
    {j \in DOMAIN server :
        /\ server[j].email = server[i].email
        /\ \/ server[j].pc \in {"insert", "commit", "close"}}

RowsOf(among) == {r \in DOMAIN db.users : db.users[r].by \in among}

\* C29: after any interleaving of concurrent create_user calls (each a
\* separate existence check followed by an insert) the users table never
\* holds two rows with the same trimmed, lowercased email; when two signups
\* for the same email race past the existence check, exactly one row is
\* inserted and the other call fails.
C29_OneRowPerEmail ==
    SigningUp =>
        /\ \A r, q \in DOMAIN db.users :
              db.users[r].email = db.users[q].email => r = q
        /\ \A r \in DOMAIN db.users :
              db.users[r].email = Lower(Strip(db.users[r].email))
        /\ \A i \in DOMAIN server :
              LET racers == RacersWith(i)
                  returned == {j \in racers : server[j].outcome = "returned"}
                  locked == {j \in racers : server[j].error = "DatabaseLocked"}
              IN  (Cardinality(racers) >= 2 /\ \A j \in racers : SignupEnded(j)) =>
                      /\ Cardinality(RowsOf(racers)) = Cardinality(returned)
                      /\ Cardinality(returned) <= 1
                      /\ \A j \in racers \ returned : server[j].outcome = "raised"
                      /\ locked # racers => Cardinality(returned) = 1

\* two calls, for " A@x.io " and "a@x.io", both passed the existence check:
\* one inserted the row, the INSERT of the other was refused
C29_RaceRefusedByUnique ==
    /\ SigningUp
    /\ \E i, j \in DOMAIN server :
          /\ server[i].pc = "close" /\ server[i].outcome = "returned"
          /\ server[j].pc = "insert" /\ server[j].error = "IntegrityError"
          /\ server[i].email = EmailA /\ server[j].email = EmailA
          /\ Cardinality({r \in DOMAIN db.users : db.users[r].email = EmailA}) = 1


====
